---- MODULE Spec2Model ----
(***************************************************************************)
(* SpendSense: signal -> persona -> recommendation pipeline.               *)
(*                                                                         *)
(* Units.  Money is in cents (integers) as in the code.  Percentages that  *)
(* the code rounds to two decimals (overall_utilization, growth_rate,      *)
(* percentage_of_spending) are held in hundredths of a percent             *)
(* (30.00% = 3000).  buffer_months is held in hundredths of a month.       *)
(* Confidence scores are held in hundredths (0.65 = 65).                   *)
(***************************************************************************)
EXTENDS Integers, Sequences, FiniteSets, TLC

VARIABLES
    signals,      \* BehaviorSignals under classification
    pstate,       \* position of the classifier: "input" | "done"
    assigned,     \* result of the persona chain: [persona_type, confidence]
    eligCall,     \* arguments of guardrails check_eligibility: [offer, user_data]
    eligResult,   \* <<>> before the call, <<returned value>> after it
    offerCall,    \* arguments of generate_offers and the loaded catalog
    offerResult,  \* <<>> before the call, <<returned list>> after it
    rationaleCall,    \* generator and arguments of the rationale functions
    rationaleResult,  \* <<>> or <<outcome of generate_rationale>>
    contentResult,    \* <<>> or <<outcome of generate_content_rationale>>
    engineResult,     \* <<>> or <<outcome of the engine's assembly loop>>
    creditCall,       \* accounts passed to analyze_credit
    creditResult,     \* <<>> or <<record returned by analyze_credit>>
    incomeCall,       \* [transactions, window_days] passed to analyze_income
    incomeResult,     \* <<>> or <<record returned by analyze_income>>
    consent,          \* users table: user id -> consent value
    profile,          \* per user: accounts, and the signals the detectors give
    overrides,        \* operator_overrides rows with action "flag": <<user, rec id>>
    personas,         \* personas table, in insertion order
    clock,            \* last value read from datetime.now()
    calls,            \* the get_user_insights calls in flight, per slot
    returns,          \* the values assign_persona has returned, in order
    started,          \* number of calls started
    changes,          \* number of consent, data and override changes made
    approvals,        \* operator_overrides rows with action "approve": <<user, rec id>>
    operatorResponse, \* the last /operator/flag or /operator/approve request and its status
    eduCall,          \* catalog and arguments passed to generate_education
    eduResult,        \* <<>> or <<list returned by generate_education>>
    subsCall,         \* [transactions, window_days] passed to detect_subscriptions
    subsResult,       \* <<>> or <<record returned by detect_subscriptions>>
    savingsCall,      \* [accounts, transactions, window_days] of analyze_savings
    savingsResult,    \* <<>> or <<record returned by analyze_savings>>
    signalsCall,      \* the user whose persona is assigned: accounts, transactions, window
    signalsResult,    \* <<>> or <<outcome of compute_signals and the persona chain>>
    assignedTypes     \* persona_type values saved in the personas table so far

personaVars == <<signals, pstate, assigned>>
eligVars == <<eligCall, eligResult>>
offerVars == <<offerCall, offerResult>>
rationaleVars == <<rationaleCall, rationaleResult, contentResult, engineResult>>
creditVars == <<creditCall, creditResult>>
incomeVars == <<incomeCall, incomeResult>>
serviceVars ==
    <<consent, profile, overrides, personas, clock, calls, returns, started, changes,
      approvals, operatorResponse>>
operatorVars == <<approvals, operatorResponse>>
selectionVars == <<eduCall, eduResult>>
subscriptionVars == <<subsCall, subsResult>>
savingsVars == <<savingsCall, savingsResult>>
signalVars == <<signalsCall, signalsResult, assignedTypes>>
moreVars == <<selectionVars, subscriptionVars, savingsVars, signalVars>>
vars == <<personaVars, eligVars, offerVars, rationaleVars, creditVars, incomeVars,
          serviceVars, moreVars>>

Min(a, b) == IF a <= b THEN a ELSE b
Max(a, b) == IF a >= b THEN a ELSE b

\* ------------------------------------------------------------------------
\* BehaviorSignals: four sub-records.  `empty` is the empty dict that
\* BehaviorSignals.__post_init__ installs for a missing record; its fields
\* then hold the defaults every `.get(key, default)` of the code falls
\* back to.
\* ------------------------------------------------------------------------
MaxCards == 4

EmptyCredit ==
    [empty |-> TRUE, overall_utilization |-> 0, total_balance |-> 0,
     total_limit |-> 0, monthly_interest |-> 0, flags |-> {},
     per_card |-> <<>>]
EmptyIncome ==
    [empty |-> TRUE, frequency |-> "unknown", stability |-> "unknown",
     average_amount |-> 0, buffer_months |-> 0, median_gap_days |-> 0]
EmptySubscriptions ==
    [empty |-> TRUE, count |-> 0, monthly_recurring_spend |-> 0,
     percentage_of_spending |-> 0]
EmptySavings ==
    [empty |-> TRUE, total_balance |-> 0, monthly_inflow |-> 0,
     growth_rate |-> 0, emergency_fund_months |-> 0]

BehaviorSignals(sub, sav, cre, inc) ==
    [subscriptions |-> sub, savings |-> sav, credit |-> cre, income |-> inc]

DefaultSignals ==
    BehaviorSignals(EmptySubscriptions, EmptySavings, EmptyCredit, EmptyIncome)

\* ------------------------------------------------------------------------
\* personas/assignment.py: graded confidence functions.  0 means no match.
\* ------------------------------------------------------------------------
CardsWithBalance(per_card) ==
    Cardinality({i \in DOMAIN per_card : per_card[i] > 0})

HighUtilizationBase(utilization) ==
    IF utilization >= 9000 THEN 90
    ELSE IF utilization >= 8000 THEN 85
    ELSE IF utilization >= 7000 THEN 80
    ELSE IF utilization >= 5000 THEN 70
    ELSE 0

\* Variant without the 0.98 caps (used to test the range property).
uncapped_high_utilization_confidence(s) ==
    LET credit == s.credit
        c0 == HighUtilizationBase(credit.overall_utilization)
        c1 == IF "overdue" \in credit.flags THEN c0 + 10 ELSE c0
        c2 == IF "interest_charges" \in credit.flags THEN c1 + 5 ELSE c1
        c3 == IF "minimum_payment_only" \in credit.flags THEN c2 + 5 ELSE c2
    IN  IF credit.empty THEN 0 ELSE c3

calculate_high_utilization_confidence(s) ==
    LET credit == s.credit
        c0 == HighUtilizationBase(credit.overall_utilization)
        c1 == IF "overdue" \in credit.flags THEN Min(c0 + 10, 98) ELSE c0
        c2 == IF "interest_charges" \in credit.flags THEN Min(c1 + 5, 98) ELSE c1
        c3 == IF "minimum_payment_only" \in credit.flags THEN Min(c2 + 5, 98) ELSE c2
        c4 == IF c3 > 0 THEN Max(c3, 65) ELSE c3
    IN  IF credit.empty THEN 0 ELSE Min(c4, 98)

\* Variant without the buffer_months >= 1.0 early return.
variable_income_ignoring_buffer(s) ==
    LET income == s.income
        gap == income.median_gap_days
        buf == income.buffer_months
        c0 == IF gap >= 90 THEN 90 ELSE IF gap >= 60 THEN 85 ELSE 75
        c1 == IF buf < 25 THEN Min(c0 + 10, 95)
              ELSE IF buf < 50 THEN Min(c0 + 5, 95)
              ELSE c0
    IN  IF income.empty THEN 0
        ELSE IF gap <= 45 THEN 0
        ELSE Min(Max(c1, 70), 95)

calculate_variable_income_confidence(s) ==
    LET income == s.income
        gap == income.median_gap_days
        buf == income.buffer_months
        c0 == IF gap >= 90 THEN 90 ELSE IF gap >= 60 THEN 85 ELSE 75
        c1 == IF buf < 25 THEN Min(c0 + 10, 95)
              ELSE IF buf < 50 THEN Min(c0 + 5, 95)
              ELSE c0
    IN  IF income.empty THEN 0
        ELSE IF gap <= 45 THEN 0
        ELSE IF buf >= 100 THEN 0
        ELSE Min(Max(c1, 70), 95)

calculate_subscription_heavy_confidence(s) ==
    LET sub == s.subscriptions
        count == sub.count
        spend == sub.monthly_recurring_spend
        pct == sub.percentage_of_spending
        c0 == IF count >= 7 THEN 85 ELSE IF count >= 5 THEN 80 ELSE 70
        c1 == IF spend >= 20000 THEN Min(c0 + 8, 90)
              ELSE IF spend >= 10000 THEN Min(c0 + 5, 90)
              ELSE c0
        c2 == IF pct >= 2000 THEN Min(c1 + 5, 90) ELSE c1
    IN  IF sub.empty THEN 0
        ELSE IF count < 3 THEN 0
        ELSE IF spend < 5000 /\ pct < 1000 THEN 0
        ELSE Min(c2, 90)

calculate_savings_builder_confidence(s) ==
    LET savings == s.savings
        credit == s.credit
        growth == savings.growth_rate
        inflow == savings.monthly_inflow
        c0 == IF growth >= 500 THEN 85
              ELSE IF growth >= 300 THEN 80
              ELSE IF growth >= 200 THEN 75
              ELSE 70
        c1 == IF inflow >= 50000 THEN Min(c0 + 5, 88)
              ELSE IF inflow >= 30000 THEN Min(c0 + 3, 88)
              ELSE c0
        c2 == IF ~credit.empty /\ credit.overall_utilization >= 2000
              THEN Max(c1 - 5, 65) ELSE c1
    IN  IF savings.empty THEN 0
        ELSE IF growth < 200 /\ inflow < 20000 THEN 0
        ELSE IF ~credit.empty /\ credit.overall_utilization >= 3000 THEN 0
        ELSE Min(c2, 88)

\* Variant that does not look at the overdue flag.
debt_consolidator_ignoring_overdue(s) ==
    LET credit == s.credit
        income == s.income
        utilization == credit.overall_utilization
        cards == CardsWithBalance(credit.per_card)
        interest == credit.monthly_interest
        c0 == IF utilization >= 6000 THEN 88
              ELSE IF utilization >= 5000 THEN 85
              ELSE 75
        c1 == IF cards >= 4 THEN Min(c0 + 5, 92)
              ELSE IF cards >= 3 THEN Min(c0 + 3, 92)
              ELSE c0
        c2 == IF interest >= 20000 THEN Min(c1 + 5, 92)
              ELSE IF interest >= 10000 THEN Min(c1 + 3, 92)
              ELSE c1
    IN  IF credit.empty THEN 0
        ELSE IF utilization < 3000 \/ utilization >= 7000 THEN 0
        ELSE IF cards < 2 THEN 0
        ELSE IF interest <= 0 THEN 0
        ELSE IF income.empty THEN 0
        ELSE IF income.frequency = "unknown" THEN 0
        ELSE Min(c2, 92)

\* Variant whose boosts are added without the min(..., 0.92) caps.
debt_consolidator_uncapped(s) ==
    LET credit == s.credit
        income == s.income
        utilization == credit.overall_utilization
        cards == CardsWithBalance(credit.per_card)
        interest == credit.monthly_interest
        c0 == IF utilization >= 6000 THEN 88
              ELSE IF utilization >= 5000 THEN 85
              ELSE 75
        c1 == IF cards >= 4 THEN c0 + 5
              ELSE IF cards >= 3 THEN c0 + 3
              ELSE c0
        c2 == IF interest >= 20000 THEN c1 + 5
              ELSE IF interest >= 10000 THEN c1 + 3
              ELSE c1
    IN  IF credit.empty THEN 0
        ELSE IF utilization < 3000 \/ utilization >= 7000 THEN 0
        ELSE IF cards < 2 THEN 0
        ELSE IF interest <= 0 THEN 0
        ELSE IF "overdue" \in credit.flags THEN 0
        ELSE IF income.empty THEN 0
        ELSE IF income.frequency = "unknown" THEN 0
        ELSE c2

calculate_debt_consolidator_confidence(s) ==
    LET credit == s.credit
        income == s.income
        utilization == credit.overall_utilization
        cards == CardsWithBalance(credit.per_card)
        interest == credit.monthly_interest
        c0 == IF utilization >= 6000 THEN 88
              ELSE IF utilization >= 5000 THEN 85
              ELSE 75
        c1 == IF cards >= 4 THEN Min(c0 + 5, 92)
              ELSE IF cards >= 3 THEN Min(c0 + 3, 92)
              ELSE c0
        c2 == IF interest >= 20000 THEN Min(c1 + 5, 92)
              ELSE IF interest >= 10000 THEN Min(c1 + 3, 92)
              ELSE c1
    IN  IF credit.empty THEN 0
        ELSE IF utilization < 3000 \/ utilization >= 7000 THEN 0
        ELSE IF cards < 2 THEN 0
        ELSE IF interest <= 0 THEN 0
        ELSE IF "overdue" \in credit.flags THEN 0
        ELSE IF income.empty THEN 0
        ELSE IF income.frequency = "unknown" THEN 0
        ELSE Min(c2, 92)

BalancedConfidence == 60

\* Variant of the chain that follows the member order of the PersonaType
\* enum (subscription_heavy before debt_consolidator) instead of
\* PERSONA_PRIORITY (used to test the priority property).
EnumOrderPersonaChain(s) ==
    LET hu == calculate_high_utilization_confidence(s)
        vi == calculate_variable_income_confidence(s)
        dc == calculate_debt_consolidator_confidence(s)
        sh == calculate_subscription_heavy_confidence(s)
        sb == calculate_savings_builder_confidence(s)
    IN  IF hu > 0 THEN [persona_type |-> "high_utilization", confidence |-> hu]
        ELSE IF vi > 0 THEN [persona_type |-> "variable_income", confidence |-> vi]
        ELSE IF sh > 0 THEN [persona_type |-> "subscription_heavy", confidence |-> sh]
        ELSE IF sb > 0 THEN [persona_type |-> "savings_builder", confidence |-> sb]
        ELSE IF dc > 0 THEN [persona_type |-> "debt_consolidator", confidence |-> dc]
        ELSE [persona_type |-> "balanced", confidence |-> BalancedConfidence]

\* The if/else chain of assign_persona: first confidence > 0 wins.
\* Variant that carries state: the confidence drops with every record
\* already in the personas table.
PersonaChainCounting(s) ==
    [EnumOrderPersonaChain(s) EXCEPT !.confidence = @ - Len(personas)]

PersonaChain(s) ==
    LET hu == calculate_high_utilization_confidence(s)
        vi == calculate_variable_income_confidence(s)
        dc == calculate_debt_consolidator_confidence(s)
        sh == calculate_subscription_heavy_confidence(s)
        sb == calculate_savings_builder_confidence(s)
    IN  IF hu > 0 THEN [persona_type |-> "high_utilization", confidence |-> hu]
        ELSE IF vi > 0 THEN [persona_type |-> "variable_income", confidence |-> vi]
        ELSE IF dc > 0 THEN [persona_type |-> "debt_consolidator", confidence |-> dc]
        ELSE IF sh > 0 THEN [persona_type |-> "subscription_heavy", confidence |-> sh]
        ELSE IF sb > 0 THEN [persona_type |-> "savings_builder", confidence |-> sb]
        ELSE [persona_type |-> "balanced", confidence |-> BalancedConfidence]

NoAssignment == [persona_type |-> "none", confidence |-> 0]

\* ------------------------------------------------------------------------
\* Input space of the classifier.
\* ------------------------------------------------------------------------
UtilizationValues == {0, 2000, 3000, 5000, 6000, 7000, 8000, 9000}
WarningFlags == {"overdue", "interest_charges", "minimum_payment_only"}
InterestValues == {0, 5000, 10000, 20000}
PerCardValues ==
    {<<>>, <<0, 50000>>} \cup {[i \in 1..n |-> 50000] : n \in 2..MaxCards}

CreditValues ==
    {EmptyCredit} \cup
    [empty : {FALSE}, overall_utilization : UtilizationValues,
     total_balance : {0}, total_limit : {0},
     monthly_interest : InterestValues, flags : SUBSET WarningFlags,
     per_card : PerCardValues]

IncomeValues ==
    {EmptyIncome} \cup
    [empty : {FALSE}, frequency : {"unknown", "variable", "biweekly"},
     stability : {"unknown"}, average_amount : {0},
     buffer_months : {-50, 20, 40, 80, 100, 150},
     median_gap_days : {14, 45, 46, 60, 90}]

SubscriptionValues ==
    {EmptySubscriptions} \cup
    [empty : {FALSE}, count : {2, 3, 5, 7},
     monthly_recurring_spend : {0, 5000, 10000, 20000},
     percentage_of_spending : {0, 1000, 2000}]

SavingsValues ==
    {EmptySavings} \cup
    [empty : {FALSE}, total_balance : {0},
     monthly_inflow : {0, 20000, 30000, 50000},
     growth_rate : {0, 200, 300, 500}, emergency_fund_months : {0}]

\* ------------------------------------------------------------------------
\* guardrails/tone.py.  A text is a sequence of tokens; a token is a word
\* or a formatted number ([word, value]).  The regular expressions of
\* SHAME_PATTERNS are word sequences bounded by \b and joined by \s+, so a
\* pattern matches where its words occur as consecutive whole tokens; the
\* optional parts ('? and s?) are written out.
\* ------------------------------------------------------------------------
W(w) == [word |-> w, value |-> 0]
N(field, v) == [word |-> field, value |-> v]

SHAME_PATTERNS ==
    << {<<"you're", "overspending">>, <<"youre", "overspending">>},
       {<<"bad", "financial", "habit">>, <<"bad", "financial", "habits">>},
       {<<"irresponsible">>},
       {<<"careless">>},
       {<<"wasting", "money">>},
       {<<"poor", "choice">>, <<"poor", "choices">>},
       {<<"financial", "mistake">>, <<"financial", "mistakes">>},
       {<<"bad", "decision">>, <<"bad", "decisions">>},
       {<<"foolish">>},
       {<<"stupid">>},
       {<<"reckless">>} >>

\* str.lower() on the words of the model that carry capitals.
LowerWord(w) ==
    CASE w = "You're" -> "you're"
      [] w = "You've" -> "you've"
      [] w = "Your" -> "your"
      [] w = "Irresponsible" -> "irresponsible"
      [] w = "RECKLESS" -> "reckless"
      [] w = "Bad" -> "bad"
      [] OTHER -> w

TextLower(text) == [i \in DOMAIN text |-> LowerWord(text[i].word)]

MatchesAt(words, pat, i) ==
    /\ i + Len(pat) - 1 <= Len(words)
    /\ \A j \in 1..Len(pat) : words[i + j - 1] = pat[j]

\* The matches re.finditer reports, as (pattern number, position) pairs.
ToneViolations(text) ==
    LET words == TextLower(text)
    IN  {<<k, i>> \in (DOMAIN SHAME_PATTERNS) \X (DOMAIN words) :
            \E pat \in SHAME_PATTERNS[k] : MatchesAt(words, pat, i)}

\* Variant that compares without lowering the text first.
check_tone_case_sensitive(text) ==
    LET words == [i \in DOMAIN text |-> text[i].word]
        violations ==
            {<<k, i>> \in (DOMAIN SHAME_PATTERNS) \X (DOMAIN words) :
                \E pat \in SHAME_PATTERNS[k] : MatchesAt(words, pat, i)}
    IN  [is_valid |-> violations = {}, violations |-> violations]

check_tone(text) ==
    IF text = <<>>
    THEN [is_valid |-> TRUE, violations |-> {}]
    ELSE LET violations == ToneViolations(text)
         IN  [is_valid |-> violations = {}, violations |-> violations]

\* ------------------------------------------------------------------------
\* recommend/content_selection.py: TemplateGenerator.
\* ------------------------------------------------------------------------
_extract_signal_tags(s) ==
    LET u == s.credit.overall_utilization
        band == IF u >= 8000 THEN <<"high_utilization_80">>
                ELSE IF u >= 5000 THEN <<"high_utilization_50">>
                ELSE IF u >= 3000 THEN <<"moderate_utilization_30">>
                ELSE <<>>
        cflags == (IF "interest_charges" \in s.credit.flags
                   THEN <<"interest_charges">> ELSE <<>>)
                  \o (IF "overdue" \in s.credit.flags THEN <<"overdue">> ELSE <<>>)
        ctags == IF s.credit.empty THEN <<>> ELSE band \o cflags
        stags == IF ~s.subscriptions.empty /\ s.subscriptions.count >= 3
                 THEN <<"subscription_heavy">> ELSE <<>>
        itags == IF s.income.empty THEN <<>>
                 ELSE (IF s.income.median_gap_days > 45
                       THEN <<"variable_income">> ELSE <<>>)
                      \o (IF s.income.stability = "stable"
                          THEN <<"stable_income">> ELSE <<>>)
        \* The savings record has no "buffer_months" key, so
        \* savings.get("buffer_months", 0.0) is 0.0 and the test < 3.0 holds.
        vtags == IF s.savings.empty THEN <<>>
                 ELSE (IF s.savings.monthly_inflow > 0
                       THEN <<"positive_savings">> ELSE <<>>)
                      \o <<"low_emergency_fund">>
    IN  ctags \o stags \o itags \o vtags

SeqToSet(q) == {q[i] : i \in DOMAIN q}

\* Raw relevance in tenths (0.5 = 5).
_calculate_relevance(item, persona_type, signal_tags) ==
    LET base == IF persona_type \in item.persona_tags THEN 5 ELSE 0
        matching == SeqToSet(signal_tags) \cap item.signal_tags
        bonus == Min(Cardinality(matching), 5)
    IN  Min(base + bonus, 10)

\* Variant whose breakpoints belong to the lower bucket (<= for <).
_convert_with_inclusive_breakpoints(score) ==
    IF score <= 2 THEN 1
    ELSE IF score <= 4 THEN 2
    ELSE IF score <= 6 THEN 3
    ELSE IF score <= 8 THEN 4
    ELSE 5

_convert_to_1_to_5_scale(score) ==
    IF score < 2 THEN 1
    ELSE IF score < 4 THEN 2
    ELSE IF score < 6 THEN 3
    ELSE IF score < 8 THEN 4
    ELSE 5

\* list.sort(key=score, reverse=True): stable, highest score first.
RECURSIVE InsertByScore(_, _)
InsertByScore(sorted, e) ==
    IF sorted = <<>> THEN <<e>>
    ELSE IF Head(sorted).score >= e.score
         THEN <<Head(sorted)>> \o InsertByScore(Tail(sorted), e)
         ELSE <<e>> \o sorted

RECURSIVE SortByScore(_)
SortByScore(q) ==
    IF q = <<>> THEN <<>>
    ELSE InsertByScore(SortByScore(SubSeq(q, 1, Len(q) - 1)), q[Len(q)])

Take(q, n) == SubSeq(q, 1, Min(n, Len(q)))

\* Variant that keeps the items whose score is 0.
generate_education_unfiltered(catalog, persona_type, s, limit) ==
    LET signal_tags == _extract_signal_tags(s)
        scored == [i \in DOMAIN catalog |->
                      [score |-> _calculate_relevance(catalog[i], persona_type, signal_tags),
                       item |-> catalog[i]]]
        top == Take(SortByScore(scored), limit)
    IN  [i \in DOMAIN top |->
            [id |-> top[i].item.id,
             relevance_score |-> _convert_to_1_to_5_scale(top[i].score)]]

generate_education(catalog, persona_type, s, limit) ==
    LET signal_tags == _extract_signal_tags(s)
        Relevant(item) == _calculate_relevance(item, persona_type, signal_tags) > 0
        kept == SelectSeq(catalog, Relevant)
        scored == [i \in DOMAIN kept |->
                      [score |-> _calculate_relevance(kept[i], persona_type, signal_tags),
                       item |-> kept[i]]]
        top == Take(SortByScore(scored), limit)
    IN  [i \in DOMAIN top |->
            [id |-> top[i].item.id,
             relevance_score |-> _convert_to_1_to_5_scale(top[i].score)]]

\* int(850 - utilization * 11) and the other bands; utilization in
\* hundredths of a percent, int() truncates a positive value.
_estimate_credit_score(u) ==
    IF u <= 1000 THEN (85000 - 11 * u) \div 100
    ELSE IF u <= 3000 THEN (7390000 - 345 * (u - 1000)) \div 10000
    ELSE IF u <= 5000 THEN (6690000 - 445 * (u - 3000)) \div 10000
    ELSE IF u <= 7500 THEN (5790000 - 316 * (u - 5000)) \div 10000
    ELSE Max(300, (50000 - 8 * (u - 7500)) \div 100)

\* rules.keys is the set of keys present in eligibility_rules.
_check_eligibility(offer_data, s, accounts, signal_tags) ==
    LET rules == offer_data.eligibility_rules
        has(k) == k \in rules.keys
        utilization == s.credit.overall_utilization
        score == _estimate_credit_score(utilization)
        \* signals.income has no "average_income" key: .get gives 0.
        monthly_income == 0 * 2
        account_types == {accounts[i].type : i \in DOMAIN accounts}
        account_subtypes == {accounts[i].subtype : i \in DOMAIN accounts}
        tags == SeqToSet(signal_tags)
        emergency_months == s.savings.emergency_fund_months
    IN  /\ ~s.credit.empty =>
            /\ has("min_credit_utilization") => ~(utilization < rules.min_credit_utilization)
            /\ has("max_credit_utilization") => ~(utilization > rules.max_credit_utilization)
            /\ has("min_credit_score_estimate") => ~(score < rules.min_credit_score_estimate)
            /\ has("max_credit_score_estimate") => ~(score > rules.max_credit_score_estimate)
        /\ (has("min_monthly_income") /\ ~s.income.empty) =>
              ~(monthly_income < rules.min_monthly_income)
        /\ has("required_account_types") => rules.required_account_types \subseteq account_types
        /\ has("excluded_account_subtypes") =>
              rules.excluded_account_subtypes \cap account_subtypes = {}
        /\ has("required_signals") => rules.required_signals \subseteq tags
        /\ has("excluded_signals") => rules.excluded_signals \cap tags = {}
        /\ ~s.savings.empty =>
            /\ has("min_emergency_fund_months") =>
                  ~(emergency_months < rules.min_emergency_fund_months)
            /\ has("max_emergency_fund_months") =>
                  ~(emergency_months > rules.max_emergency_fund_months)

OfferLimit == 3

generate_offers(catalog, persona_type, s, accounts, limit) ==
    LET signal_tags == _extract_signal_tags(s)
        Keep(o) == /\ persona_type \in o.persona_tags
                   /\ _check_eligibility(o, s, accounts, signal_tags)
        kept == SelectSeq(catalog, Keep)
        scored == [i \in DOMAIN kept |->
                      [score |-> _calculate_relevance(kept[i], persona_type, signal_tags),
                       item |-> kept[i]]]
        top == Take(SortByScore(scored), limit)
    IN  [i \in DOMAIN top |->
            [id |-> top[i].item.id,
             offer_type |-> top[i].item.offer_type,
             relevance_score |-> _convert_to_1_to_5_scale(top[i].score),
             eligibility_met |-> TRUE]]

\* ------------------------------------------------------------------------
\* Explanation templates.  The literal text of each f-string is kept word
\* for word (punctuation dropped, as \b ignores it); a formatted value is a
\* number token carrying the value as printed.
\* ------------------------------------------------------------------------
Words(q) == [i \in DOMAIN q |-> W(q[i])]

\* {x:.1f} of a value held in hundredths: the value in tenths.
Format1f(v) == IF v >= 0 THEN (v + 5) \div 10 ELSE -((5 - v) \div 10)
\* {x:,.2f} of cents / 100: the amount in cents.
Format2f(cents) == cents
\* {x:,.0f} of cents / 100: whole dollars, ties to even.
Format0f(cents) ==
    LET q == cents \div 100
        r == cents % 100
    IN  IF r > 50 \/ (r = 50 /\ q % 2 = 1) THEN q + 1 ELSE q

RECURSIVE JoinAnd(_)
\* ", and ".join(insights)
JoinAnd(parts) ==
    IF parts = <<>> THEN <<>>
    ELSE IF Len(parts) = 1 THEN parts[1]
    ELSE parts[1] \o <<W("and")>> \o JoinAnd(Tail(parts))

BalancedInsights(s) ==
    (IF ~s.credit.empty /\ s.credit.overall_utilization < 3000
     THEN << Words(<<"your", "credit", "utilization", "of">>)
             \o <<N("overall_utilization", Format1f(s.credit.overall_utilization))>>
             \o Words(<<"is", "in", "a", "healthy", "range">>) >>
     ELSE <<>>)
    \o (IF ~s.income.empty /\ s.income.stability = "stable"
        THEN << Words(<<"you", "have", "stable", "regular", "income">>) >>
        ELSE <<>>)
    \o (IF ~s.savings.empty /\ s.savings.monthly_inflow > 0
        THEN << Words(<<"you're", "saving", "consistently", "with">>)
                \o <<N("monthly_inflow", Format2f(s.savings.monthly_inflow))>>
                \o Words(<<"monthly", "inflow">>) >>
        ELSE <<>>)

\* debt_consolidator has no branch of its own: it takes the final else.
_generate_explanation(persona_type, s) ==
    IF persona_type = "high_utilization" THEN
        Words(<<"You've", "been", "identified", "as", "a", "High",
                     "Utilization", "user", "because", "your", "credit", "card",
                     "utilization", "is">>)
        \o <<N("overall_utilization", Format1f(s.credit.overall_utilization))>>
        \o Words(<<"which", "is", "above", "the", "recommended", "30", "threshold",
                     "You're", "currently", "using">>)
        \o <<N("total_balance", Format2f(s.credit.total_balance))>>
        \o Words(<<"of", "your">>)
        \o <<N("total_limit", Format2f(s.credit.total_limit))>>
        \o Words(<<"total", "credit", "limit">>)
        \o (IF "interest_charges" \in s.credit.flags
            THEN Words(<<"You're", "also", "paying", "interest", "charges", "on", "your",
                          "balances", "which", "adds", "to", "the", "cost", "of",
                          "carrying", "debt">>)
            ELSE <<>>)
        \o (IF "overdue" \in s.credit.flags
            THEN Words(<<"Additionally", "you", "have", "overdue", "payments", "which",
                          "can", "negatively", "impact", "your", "credit", "score">>)
            ELSE <<>>)
        \o Words(<<"High", "credit", "utilization", "can", "hurt", "your",
                     "credit", "score", "and", "lead", "to", "higher", "interest",
                     "costs", "We", "recommend", "focusing", "on", "paying", "down",
                     "high", "balances", "and", "keeping", "utilization", "below",
                     "30">>)
    ELSE IF persona_type = "variable_income" THEN
        Words(<<"You've", "been", "identified", "as", "a", "Variable", "Income",
                     "user", "because", "your", "income", "arrives", "irregularly",
                     "with", "a", "median", "gap", "of">>)
        \o <<N("median_gap_days", s.income.median_gap_days)>>
        \o Words(<<"days", "between", "payments", "Your", "average", "income",
                     "payment", "is">>)
        \o <<N("average_amount", Format2f(s.income.average_amount))>>
        \o Words(<<"and", "you", "currently", "have">>)
        \o <<N("buffer_months", Format1f(s.income.buffer_months))>>
        \o Words(<<"months", "of", "cash", "flow", "buffer", "Variable", "income",
                     "requires", "special", "budgeting", "strategies", "and", "a",
                     "larger", "emergency", "fund", "We", "recommend", "building",
                     "your", "buffer", "to", "at", "least", "6-12", "months", "of",
                     "expenses", "and", "using", "percentage-based", "budgeting",
                     "rather", "than", "fixed", "amounts">>)
    ELSE IF persona_type = "subscription_heavy" THEN
        Words(<<"You've", "been", "identified", "as", "a", "Subscription",
                     "Heavy", "user", "because", "you", "have">>)
        \o <<N("count", s.subscriptions.count)>>
        \o Words(<<"active", "recurring", "subscriptions", "totaling">>)
        \o <<N("monthly_recurring_spend", Format2f(s.subscriptions.monthly_recurring_spend))>>
        \o Words(<<"per", "month", "This", "represents">>)
        \o <<N("percentage_of_spending", Format1f(s.subscriptions.percentage_of_spending))>>
        \o Words(<<"of", "your", "total", "spending", "While", "some",
                     "subscriptions", "provide", "value", "it's", "easy", "for",
                     "unused", "subscriptions", "to", "accumulate", "We",
                     "recommend", "conducting", "a", "subscription", "audit", "to",
                     "identify", "services", "you", "rarely", "use", "and",
                     "canceling", "or", "downgrading", "them", "to", "save", "money">>)
    ELSE IF persona_type = "savings_builder" THEN
        Words(<<"You've", "been", "identified", "as", "a", "Savings", "Builder",
                     "because", "you're", "making", "consistent", "progress",
                     "toward", "your", "financial", "goals", "Your", "savings",
                     "are", "growing", "at">>)
        \o <<N("growth_rate", Format1f(s.savings.growth_rate))>>
        \o Words(<<"with", "an", "average", "monthly", "inflow", "of">>)
        \o <<N("monthly_inflow", Format2f(s.savings.monthly_inflow))>>
        \o Words(<<"Your", "credit", "utilization", "is">>)
        \o <<N("overall_utilization", Format1f(s.credit.overall_utilization))>>
        \o Words(<<"which", "is", "in", "a", "healthy", "range", "Keep", "up",
                     "the", "great", "work", "We", "recommend", "focusing", "on",
                     "building", "your", "emergency", "fund", "automating", "your",
                     "savings", "and", "optimizing", "your", "investment", "strategy">>)
    ELSE
        Words(<<"You've", "been", "identified", "as", "a", "Balanced", "user",
                     "which", "means", "you're", "generally", "maintaining",
                     "healthy", "financial", "habits", "without", "critical",
                     "issues", "requiring", "immediate", "attention">>)
        \o (IF BalancedInsights(s) # <<>>
            THEN Words(<<"Specifically">>) \o JoinAnd(BalancedInsights(s))
            ELSE <<>>)
        \o Words(<<"Continue", "monitoring", "your", "financial", "wellness",
                     "and", "consider", "setting", "specific", "goals", "to",
                     "optimize", "your", "savings", "reduce", "debt", "or", "build",
                     "wealth">>)

_generate_content_explanation(persona_type, s, signal_tags) ==
    IF persona_type = "high_utilization" /\ ~s.credit.empty THEN
        Words(<<"Your", "credit", "utilization", "is">>)
        \o <<N("overall_utilization", Format1f(s.credit.overall_utilization))>>
        \o Words(<<"with">>)
        \o <<N("total_balance", Format0f(s.credit.total_balance))>>
        \o Words(<<"in", "balances">>)
        \o (IF "interest_charges" \in SeqToSet(signal_tags)
            THEN Words(<<"and", "you're", "paying", "interest", "charges">>)
            ELSE <<>>)
    ELSE IF persona_type = "subscription_heavy" /\ ~s.subscriptions.empty THEN
        Words(<<"You", "have">>)
        \o <<N("count", s.subscriptions.count)>>
        \o Words(<<"recurring", "subscriptions", "totaling">>)
        \o <<N("monthly_recurring_spend", Format0f(s.subscriptions.monthly_recurring_spend))>>
        \o Words(<<"/month">>)
    ELSE IF persona_type = "variable_income" /\ ~s.income.empty THEN
        Words(<<"Your", "income", "arrives", "every">>)
        \o <<N("median_gap_days", s.income.median_gap_days)>>
        \o Words(<<"days", "with">>)
        \o <<N("buffer_months", Format1f(s.income.buffer_months))>>
        \o Words(<<"months", "buffer">>)
    ELSE IF persona_type = "savings_builder" /\ ~s.savings.empty THEN
        Words(<<"You're", "saving">>)
        \o <<N("monthly_inflow", Format0f(s.savings.monthly_inflow))>>
        \o Words(<<"/month", "with">>)
        \o <<N("growth_rate", Format1f(s.savings.growth_rate))>>
        \o Words(<<"growth">>)
    ELSE IF persona_type = "debt_consolidator" /\ ~s.credit.empty THEN
        Words(<<"You're", "managing", "multiple", "cards", "at">>)
        \o <<N("overall_utilization", Format1f(s.credit.overall_utilization))>>
        \o Words(<<"utilization">>)
    ELSE
        Words(<<"This", "matches", "your", "current", "financial", "profile">>)

\* The explanation text a generator produces.  g.overridden is FALSE for
\* TemplateGenerator itself; a generator whose _generate_explanation and
\* _generate_content_explanation are overridden returns g.text instead.
RenderExplanation(g, persona_type, s) ==
    IF g.overridden THEN g.text ELSE _generate_explanation(persona_type, s)

RenderContentExplanation(g, persona_type, s, signal_tags) ==
    IF g.overridden THEN g.text
    ELSE _generate_content_explanation(persona_type, s, signal_tags)

\* Outcome of a call: raised = "" and one value, or the ValueError raised
\* and no value.
Returned(v) == [raised |-> "", value |-> <<v>>]
Raised(msg) == [raised |-> msg, value |-> <<>>]

Rationale(persona_type, confidence, explanation, key_signals) ==
    [persona_type |-> persona_type, confidence |-> confidence,
     explanation |-> explanation, key_signals |-> key_signals]

\* Variant that drops the matched words and returns the rest of the text.
generate_rationale_redacting(g, persona_type, confidence, s) ==
    LET signal_tags == _extract_signal_tags(s)
        explanation == RenderExplanation(g, persona_type, s)
        bad == {v[2] : v \in ToneViolations(explanation)}
        Clean(tok) == \A i \in bad : explanation[i] # tok
    IN  Returned(Rationale(persona_type, confidence,
                           SelectSeq(explanation, Clean), signal_tags))

generate_rationale(g, persona_type, confidence, s) ==
    IF persona_type = "" THEN Raised("persona_type is required")
    ELSE LET signal_tags == _extract_signal_tags(s)
             explanation == RenderExplanation(g, persona_type, s)
         IN  IF ~check_tone(explanation).is_valid
             THEN Raised("Tone guardrail violation")
             ELSE Returned(Rationale(persona_type, confidence, explanation, signal_tags))

generate_content_rationale(g, persona_type, confidence, s) ==
    IF persona_type = "" THEN Raised("persona_type is required")
    ELSE LET signal_tags == _extract_signal_tags(s)
             explanation == RenderContentExplanation(g, persona_type, s, signal_tags)
         IN  IF ~check_tone(explanation).is_valid
             THEN Raised("Tone guardrail violation in content rationale")
             ELSE Returned(Rationale(persona_type, confidence, explanation, signal_tags))

\* services/recommendation_engine.py, steps 5 to 8 of
\* generate_recommendations: one rationale per selected education item, then
\* one per selected offer; an exception leaves no result.
BuildRecommendations(g, persona_type, confidence, s, education_items, offer_items) ==
    LET crat == generate_content_rationale(g, persona_type, confidence, s)
        rat == generate_rationale(g, persona_type, confidence, s)
    IN  IF education_items # <<>> /\ crat.raised # "" THEN Raised(crat.raised)
        ELSE IF offer_items # <<>> /\ rat.raised # "" THEN Raised(rat.raised)
        ELSE Returned(
               [persona_type |-> persona_type,
                confidence |-> confidence,
                education_recommendations |->
                    [i \in DOMAIN education_items |->
                        [content |-> education_items[i], rationale |-> crat.value[1],
                         persona |-> persona_type, confidence |-> confidence]],
                offer_recommendations |->
                    [i \in DOMAIN offer_items |->
                        [offer |-> offer_items[i], rationale |-> rat.value[1],
                         persona |-> persona_type, confidence |-> confidence]]])

\* ------------------------------------------------------------------------
\* guardrails/eligibility.py.
\* ------------------------------------------------------------------------
\* str.lower() on the product types of the model that carry capitals.
LowerType(ty) ==
    CASE ty = "Payday_Loan" -> "payday_loan"
      [] ty = "TITLE_LOAN" -> "title_loan"
      [] OTHER -> ty

BlockedTypes == {"payday_loan", "title_loan", "rent_to_own"}
MaxApr == 3600

\* Variant that only looks at the product type.
is_predatory_by_type_only(offer) == LowerType(offer.type) \in BlockedTypes

is_predatory_product(offer) ==
    \/ LowerType(offer.type) \in BlockedTypes
    \/ offer.apr > MaxApr

check_income_requirement(offer, user_income) ==
    IF offer.min_income = 0 THEN TRUE
    ELSE user_income >= offer.min_income

has_existing_account(user_accounts, account_type) ==
    \E i \in DOMAIN user_accounts : user_accounts[i].subtype = account_type

\* account_type "" stands for an offer without the key (None).
check_eligibility(offer, user_data) ==
    IF is_predatory_product(offer) THEN FALSE
    ELSE IF ~check_income_requirement(offer, user_data.annual_income) THEN FALSE
    ELSE IF offer.account_type # ""
            /\ has_existing_account(user_data.accounts, offer.account_type)
         THEN FALSE
    ELSE TRUE

\* ------------------------------------------------------------------------
\* features/credit.py.  apr is held in hundredths of a percent.
\* ------------------------------------------------------------------------
RECURSIVE SumSeq(_)
SumSeq(q) == IF q = <<>> THEN 0 ELSE Head(q) + SumSeq(Tail(q))

\* round(num / den) for den > 0: nearest integer, ties to even.
RoundDiv(num, den) ==
    LET q == num \div den
        r == num % den
    IN  IF 2 * r > den \/ (2 * r = den /\ q % 2 = 1) THEN q + 1 ELSE q

IsCredit(acc) == acc.type = "credit"

\* Utilization in hundredths of a percent, as round(x, 2) returns it.
RoundedUtilization(balance, limit) ==
    IF limit = 0 THEN 0 ELSE RoundDiv(10000 * balance, limit)

\* Variant with three independent tests in place of the if/elif chain.
UtilizationFlagsIndependent(total_balance, total_limit) ==
    IF total_limit = 0 THEN <<>>
    ELSE (IF 100 * total_balance >= 80 * total_limit
          THEN <<"high_utilization_80">> ELSE <<>>)
         \o (IF 100 * total_balance >= 50 * total_limit
             THEN <<"high_utilization_50">> ELSE <<>>)
         \o (IF 100 * total_balance >= 30 * total_limit
             THEN <<"moderate_utilization_30">> ELSE <<>>)

\* overall_utilization is 0.0 when the limit is 0, else balance/limit*100
\* before rounding; the comparisons are made on that value.
UtilizationFlags(total_balance, total_limit) ==
    IF total_limit = 0 THEN <<>>
    ELSE IF 100 * total_balance >= 80 * total_limit THEN <<"high_utilization_80">>
    ELSE IF 100 * total_balance >= 50 * total_limit THEN <<"high_utilization_50">>
    ELSE IF 100 * total_balance >= 30 * total_limit THEN <<"moderate_utilization_30">>
    ELSE <<>>

analyze_credit(accounts) ==
    LET credit_accounts == SelectSeq(accounts, IsCredit)
        idx == DOMAIN credit_accounts
        total_balance == SumSeq([i \in idx |-> credit_accounts[i].balance])
        total_limit == SumSeq([i \in idx |-> credit_accounts[i].limit])
        per_card == [i \in idx |->
                        [utilization |-> RoundedUtilization(credit_accounts[i].balance,
                                                            credit_accounts[i].limit),
                         balance |-> credit_accounts[i].balance,
                         limit |-> credit_accounts[i].limit]]
        monthly_interest ==
            RoundDiv(SumSeq([i \in idx |->
                        credit_accounts[i].balance * credit_accounts[i].apr]), 120000)
        has_overdue == \E i \in idx : credit_accounts[i].is_overdue
        has_minimum_payment_only ==
            \E i \in idx :
                /\ credit_accounts[i].min_payment > 0
                /\ 0 < credit_accounts[i].last_payment_amount
                /\ 10 * credit_accounts[i].last_payment_amount
                      <= 11 * credit_accounts[i].min_payment
        flags == (IF has_overdue THEN <<"overdue">> ELSE <<>>)
                 \o (IF monthly_interest > 0 THEN <<"interest_charges">> ELSE <<>>)
                 \o (IF has_minimum_payment_only
                     THEN <<"minimum_payment_only">> ELSE <<>>)
                 \o UtilizationFlags(total_balance, total_limit)
    IN  IF credit_accounts = <<>>
        THEN [overall_utilization |-> 0, total_balance |-> 0, total_limit |-> 0,
              monthly_interest |-> 0, flags |-> <<>>, per_card |-> <<>>]
        ELSE [overall_utilization |-> RoundedUtilization(total_balance, total_limit),
              total_balance |-> total_balance,
              total_limit |-> total_limit,
              monthly_interest |-> monthly_interest,
              flags |-> flags,
              per_card |-> per_card]

\* ------------------------------------------------------------------------
\* features/income.py.  Dates are day numbers.  coefficient_variation is
\* held in hundredths (nearest), buffer_months in hundredths of a month; the
\* stability test is made on the exact value of cv.
\* ------------------------------------------------------------------------
IsIncome(txn) == txn.category = "INCOME"
IsExpense(txn) == txn.category # "INCOME" /\ txn.amount > 0

Abs(x) == IF x >= 0 THEN x ELSE -x

\* sorted(income_txns, key=date): stable, ascending.
RECURSIVE InsertByDate(_, _)
InsertByDate(sorted, txn) ==
    IF sorted = <<>> THEN <<txn>>
    ELSE IF Head(sorted).date <= txn.date
         THEN <<Head(sorted)>> \o InsertByDate(Tail(sorted), txn)
         ELSE <<txn>> \o sorted

RECURSIVE SortByDate(_)
SortByDate(q) ==
    IF q = <<>> THEN <<>>
    ELSE InsertByDate(SortByDate(SubSeq(q, 1, Len(q) - 1)), q[Len(q)])

RECURSIVE InsertAscending(_, _)
InsertAscending(sorted, x) ==
    IF sorted = <<>> THEN <<x>>
    ELSE IF Head(sorted) <= x THEN <<Head(sorted)>> \o InsertAscending(Tail(sorted), x)
         ELSE <<x>> \o sorted

RECURSIVE SortAscending(_)
SortAscending(q) ==
    IF q = <<>> THEN <<>>
    ELSE InsertAscending(SortAscending(Tail(q)), Head(q))

\* int(statistics.median(gaps)) if gaps else 0; gaps are not negative.
MedianGap(gaps) ==
    LET sorted == SortAscending(gaps)
        n == Len(gaps)
    IN  IF n = 0 THEN 0
        ELSE IF n % 2 = 1 THEN sorted[(n + 1) \div 2]
        ELSE (sorted[n \div 2] + sorted[n \div 2 + 1]) \div 2

ClassifyFrequency(median_gap) ==
    IF 13 <= median_gap /\ median_gap <= 16 THEN "biweekly"
    ELSE IF 28 <= median_gap /\ median_gap <= 32 THEN "monthly"
    ELSE IF 6 <= median_gap /\ median_gap <= 8 THEN "weekly"
    ELSE "variable"

\* n(n-1) times the sample variance of the amounts.
VarianceNumerator(amounts) ==
    Len(amounts) * SumSeq([i \in DOMAIN amounts |-> amounts[i] * amounts[i]])
        - SumSeq(amounts) * SumSeq(amounts)

CvBound == 400

\* stdev / average_amount in hundredths; 0 when average_amount is 0.
CoefficientVariation(amounts, average_amount) ==
    IF average_amount <= 0 THEN 0
    ELSE LET n == Len(amounts)
             den == n * (n - 1) * average_amount * average_amount
             num == VarianceNumerator(amounts)
         IN  CHOOSE k \in 0..CvBound :
                 /\ (k = 0 \/ (2 * k - 1) * (2 * k - 1) * den <= 40000 * num)
                 /\ 40000 * num < (2 * k + 1) * (2 * k + 1) * den

\* cv < 0.15, where cv = stdev / average_amount (0.0 when the average is 0).
CvBelowThreshold(amounts, average_amount) ==
    IF average_amount <= 0 THEN TRUE
    ELSE LET n == Len(amounts)
         IN  400 * VarianceNumerator(amounts)
                 < 9 * n * (n - 1) * average_amount * average_amount

UnknownIncome ==
    [frequency |-> "unknown", stability |-> "unknown", average_amount |-> 0,
     coefficient_variation |-> 0, buffer_months |-> 0, median_gap_days |-> 0]

\* Variant that asks for one income transaction only.
InsufficientIncomeBelowOne(income_txns) == Len(income_txns) < 1

InsufficientIncome(income_txns) == Len(income_txns) < 2

\* Variant that never reports a negative buffer.
BufferMonthsClamped(net_cash_flow, total_expenses, window_days) ==
    IF window_days > 0 /\ total_expenses > 0
    THEN Max(0, RoundDiv(100 * net_cash_flow * window_days, 30 * total_expenses))
    ELSE 0

\* monthly_expenses = total_expenses / (window_days / 30) if window_days > 0
\* else 0; buffer_months = net_cash_flow / monthly_expenses when that is
\* > 0, else 0.0; returned as round(buffer_months, 2).
BufferMonths(net_cash_flow, total_expenses, window_days) ==
    IF window_days > 0 /\ total_expenses > 0
    THEN RoundDiv(100 * net_cash_flow * window_days, 30 * total_expenses)
    ELSE 0

analyze_income(transactions, window_days) ==
    LET income_txns == SelectSeq(transactions, IsIncome)
        income_txns_sorted == SortByDate(income_txns)
        amounts == [i \in DOMAIN income_txns_sorted |->
                       Abs(income_txns_sorted[i].amount)]
        gaps == [i \in 1..(Len(income_txns_sorted) - 1) |->
                    income_txns_sorted[i + 1].date - income_txns_sorted[i].date]
        median_gap == MedianGap(gaps)
        average_amount == SumSeq(amounts) \div Len(amounts)
        has_stdev == Len(amounts) >= 2
        total_income == SumSeq(amounts)
        expense_txns == SelectSeq(transactions, IsExpense)
        total_expenses == SumSeq([i \in DOMAIN expense_txns |-> expense_txns[i].amount])
        net_cash_flow == total_income - total_expenses
        buffer_months == BufferMonths(net_cash_flow, total_expenses, window_days)
    IN  IF InsufficientIncome(income_txns) THEN UnknownIncome
        ELSE IF SumSeq(amounts) = 0 THEN UnknownIncome
        ELSE [frequency |-> ClassifyFrequency(median_gap),
              stability |-> IF ~has_stdev THEN "unknown"
                            ELSE IF CvBelowThreshold(amounts, average_amount)
                                 THEN "stable" ELSE "variable",
              average_amount |-> average_amount,
              coefficient_variation |->
                  IF has_stdev THEN CoefficientVariation(amounts, average_amount)
                  ELSE 0,
              buffer_months |-> buffer_months,
              median_gap_days |-> median_gap]

\* ------------------------------------------------------------------------
\* guardrails/consent.py.  A consent value is "True", "False" or "None".
\* ------------------------------------------------------------------------
ConsentValues == {"True", "False", "None"}

\* Variant that only refuses an explicit False.
check_consent_unless_false(user_consent) == user_consent # "False"

check_consent(user_consent) ==
    IF user_consent = "None" THEN FALSE
    ELSE IF user_consent # "True" THEN FALSE
    ELSE TRUE

\* ------------------------------------------------------------------------
\* models/persona.py and the save at the end of assign_persona.
\* ------------------------------------------------------------------------
\* f"{window_days}d"
WindowStr(window_days) ==
    CASE window_days = 30 -> "30d"
      [] window_days = 0 -> "0d"
      [] window_days = 45 -> "45d"
      [] window_days = 90 -> "90d"
      [] window_days = 180 -> "180d"
      [] OTHER -> "d"

Persona(id, user_id, window, persona_type, confidence, assigned_at) ==
    [id |-> id, user_id |-> user_id, window |-> window,
     persona_type |-> persona_type, confidence |-> confidence,
     assigned_at |-> assigned_at]

\* Variant that keeps one row per (user, window) and overwrites it.
UpsertPersona(log, user_id, window, persona_type, confidence, assigned_at) ==
    IF \E i \in DOMAIN log : log[i].user_id = user_id /\ log[i].window = window
    THEN [i \in DOMAIN log |->
             IF log[i].user_id = user_id /\ log[i].window = window
             THEN Persona(log[i].id, user_id, window, persona_type, confidence,
                          assigned_at)
             ELSE log[i]]
    ELSE Append(log, Persona(Len(log) + 1, user_id, window, persona_type,
                             confidence, assigned_at))

\* db.add(persona); commit: a new row, id from autoincrement.
SavePersona(log, user_id, window, persona_type, confidence, assigned_at) ==
    Append(log, Persona(Len(log) + 1, user_id, window, persona_type,
                        confidence, assigned_at))

\* Classifier inputs: every credit record against every income record and
\* against every savings record (the pairs a single confidence function
\* reads), and all four records together over the coarse values that
\* decide which personas match.
CoarseCredit ==
    {c \in CreditValues :
        /\ c.overall_utilization \in {0, 2000, 3000, 5000, 9000}
        /\ c.flags \in {{}, {"interest_charges"}, {"overdue"}}
        /\ Len(c.per_card) \in {0, 2}
        /\ c.monthly_interest \in {0, 5000}}
CoarseIncome ==
    {i \in IncomeValues :
        /\ i.median_gap_days \in {0, 14, 60}
        /\ i.buffer_months \in {0, 40, 100}
        /\ i.frequency \in {"unknown", "biweekly"}}
CoarseSavings ==
    {v \in SavingsValues :
        /\ v.growth_rate \in {0, 200, 500}
        /\ v.monthly_inflow \in {0, 20000}}

InputSignals(s) ==
    \/ \E c \in CreditValues, i \in IncomeValues :
            s = BehaviorSignals(EmptySubscriptions, EmptySavings, c, i)
    \/ \E c \in CreditValues, v \in SavingsValues :
            s = BehaviorSignals(EmptySubscriptions, v, c, EmptyIncome)
    \/ \E u \in SubscriptionValues, v \in SavingsValues :
            s = BehaviorSignals(u, v, EmptyCredit, EmptyIncome)
    \/ \E u \in SubscriptionValues, v \in CoarseSavings,
           c \in CoarseCredit, i \in CoarseIncome :
            s = BehaviorSignals(u, v, c, i)

\* ------------------------------------------------------------------------
\* Specification of the classifier alone: the signals are drawn, then the
\* chain of assign_persona (lines 393-417) is evaluated once.
\* ------------------------------------------------------------------------
\* Values of the variables a specification does not use.
NoOffer == [type |-> "", apr |-> 0, min_income |-> 0, account_type |-> ""]
NoUserData == [annual_income |-> 0, accounts |-> <<>>]
IdlePersona ==
    /\ signals = DefaultSignals
    /\ pstate = "idle"
    /\ assigned = NoAssignment
IdleElig ==
    /\ eligCall = [offer |-> NoOffer, user_data |-> NoUserData]
    /\ eligResult = <<>>
IdleOffers ==
    /\ offerCall = [catalog |-> <<>>, persona_type |-> "none",
                    signals |-> DefaultSignals, accounts |-> <<>>, limit |-> 0]
    /\ offerResult = <<>>
IdleRationale ==
    /\ rationaleCall = [generator |-> [overridden |-> FALSE, text |-> <<>>],
                        persona_type |-> "none", confidence |-> 0,
                        signals |-> DefaultSignals,
                        education_items |-> <<>>, offer_items |-> <<>>]
    /\ rationaleResult = <<>>
    /\ contentResult = <<>>
    /\ engineResult = <<>>
IdleCredit ==
    /\ creditCall = <<>>
    /\ creditResult = <<>>
IdleIncome ==
    /\ incomeCall = [transactions |-> <<>>, window_days |-> 0]
    /\ incomeResult = <<>>

Users == {"u1", "u2"}
Slots == {"a", "b"}

\* compute_signals always returns four filled records.
ZeroSignals ==
    BehaviorSignals([EmptySubscriptions EXCEPT !.empty = FALSE],
                    [EmptySavings EXCEPT !.empty = FALSE],
                    [EmptyCredit EXCEPT !.empty = FALSE],
                    [EmptyIncome EXCEPT !.empty = FALSE])

NoResponse ==
    [status |-> 0, consent_required |-> FALSE, persona_type |-> "",
     confidence |-> 0, education_recommendations |-> <<>>,
     offer_recommendations |-> <<>>]

IdleCall ==
    [pc |-> "idle", user_id |-> "", window |-> 0, consent_seen |-> "",
     signals |-> DefaultSignals, persona_type |-> "", confidence |-> 0,
     response |-> NoResponse, entry |-> "", raised |-> ""]

IdleSelection == eduCall = <<>> /\ eduResult = <<>>
IdleSubscriptions == subsCall = <<>> /\ subsResult = <<>>
IdleSavings == savingsCall = <<>> /\ savingsResult = <<>>
IdleSignals == signalsCall = <<>> /\ signalsResult = <<>> /\ assignedTypes = {}
IdleMore == IdleSelection /\ IdleSubscriptions /\ IdleSavings /\ IdleSignals

\* schemas/operator.py ApprovalRequest; reason "" stands for no reason.
ApprovalRequest(user_id, recommendation_id, action, reason) ==
    [user_id |-> user_id, recommendation_id |-> recommendation_id,
     action |-> action, reason |-> reason]

OperatorResponse(endpoint, request, status) ==
    [endpoint |-> endpoint, request |-> request, status |-> status]

NoRequest == OperatorResponse("", ApprovalRequest("", "", "", ""), 0)

IdleService ==
    /\ consent = [u \in Users |-> "False"]
    /\ profile = [u \in Users |-> [accounts |-> <<>>, signals |-> ZeroSignals]]
    /\ overrides = {}
    /\ personas = <<>>
    /\ clock = 0
    /\ calls = [slot \in Slots |-> IdleCall]
    /\ returns = <<>>
    /\ started = 0
    /\ changes = 0
    /\ approvals = {}
    /\ operatorResponse = NoRequest

InitPersona ==
    /\ InputSignals(signals)
    /\ pstate = "input"
    /\ assigned = NoAssignment
    /\ IdleElig /\ IdleOffers /\ IdleRationale /\ IdleCredit /\ IdleIncome
    /\ IdleService /\ IdleMore

EvaluateChain ==
    /\ pstate = "input"
    /\ assigned' = PersonaChain(signals)
    /\ pstate' = "done"
    /\ UNCHANGED <<signals, eligVars, offerVars, rationaleVars, creditVars, incomeVars, serviceVars, moreVars>>

NextPersona == EvaluateChain

SpecPersona == InitPersona /\ [][NextPersona]_vars

\* ------------------------------------------------------------------------
\* Properties of the classifier (SpecPersona).
\* ------------------------------------------------------------------------
PERSONA_PRIORITY ==
    <<"high_utilization", "variable_income", "debt_consolidator",
      "subscription_heavy", "savings_builder", "balanced">>

ConfidenceOf(p, s) ==
    CASE p = "high_utilization" -> calculate_high_utilization_confidence(s)
      [] p = "variable_income" -> calculate_variable_income_confidence(s)
      [] p = "debt_consolidator" -> calculate_debt_consolidator_confidence(s)
      [] p = "subscription_heavy" -> calculate_subscription_heavy_confidence(s)
      [] p = "savings_builder" -> calculate_savings_builder_confidence(s)
      [] OTHER -> 0

Matches(k, s) == ConfidenceOf(PERSONA_PRIORITY[k], s) > 0

\* C1: the chain returns exactly one persona: the first of the five, in
\* priority order, whose confidence function returns > 0, and balanced if
\* and only if none of the five matches; a lower-priority match never
\* overrides a higher-priority one.
C1_FirstMatchInPriorityOrderWins ==
    pstate = "done" =>
        /\ Cardinality({k \in 1..6 : PERSONA_PRIORITY[k] = assigned.persona_type}) = 1
        /\ \A k \in 1..5 :
              (assigned.persona_type = PERSONA_PRIORITY[k])
                  <=> (Matches(k, signals) /\ \A j \in 1..(k - 1) : ~Matches(j, signals))
        /\ (assigned.persona_type = "balanced")
              <=> (\A k \in 1..5 : ~Matches(k, signals))

\* C1 witness: variable_income is assigned although subscription_heavy and
\* savings_builder match as well.
C1_Witness ==
    /\ pstate = "done"
    /\ assigned.persona_type = "variable_income"
    /\ calculate_subscription_heavy_confidence(signals) > 0
    /\ calculate_savings_builder_confidence(signals) > 0

C11_VariableIncomeMatch ==
    pstate = "done" =>
        LET income == signals.income
            expected == /\ ~income.empty
                        /\ income.median_gap_days > 45
                        /\ income.buffer_months < 100
        IN  /\ (calculate_variable_income_confidence(signals) > 0) <=> expected
            /\ calculate_high_utilization_confidence(signals) = 0 =>
                  ((assigned.persona_type = "variable_income") <=> expected)
            /\ (income.median_gap_days = 60 /\ income.buffer_months >= 100) =>
                  assigned.persona_type # "variable_income"

\* C11 witness: the scenario of the claim (gap 60, buffer 0.8) has been
\* classified as variable_income.
C11_Witness ==
    /\ pstate = "done"
    /\ signals.income.median_gap_days = 60
    /\ signals.income.buffer_months = 80
    /\ assigned.persona_type = "variable_income"
    /\ assigned.confidence = 85

\* ------------------------------------------------------------------------
\* services/personas.py: the predicate chain.
\* ------------------------------------------------------------------------
CONFIDENCE_SCORES ==
    [high_utilization |-> 95, variable_income |-> 90, debt_consolidator |-> 88,
     subscription_heavy |-> 85, savings_builder |-> 80, balanced |-> 60]

matches_high_utilization(s) ==
    LET credit == s.credit
    IN  IF credit.empty THEN FALSE
        ELSE IF credit.overall_utilization >= 5000 THEN TRUE
        ELSE IF "interest_charges" \in credit.flags THEN TRUE
        ELSE IF "overdue" \in credit.flags THEN TRUE
        ELSE IF "minimum_payment_only" \in credit.flags THEN TRUE
        ELSE FALSE

matches_variable_income(s) ==
    LET income == s.income
    IN  IF income.empty THEN FALSE
        ELSE IF income.median_gap_days <= 45 THEN FALSE
        ELSE IF income.buffer_months >= 100 THEN FALSE
        ELSE TRUE

matches_subscription_heavy(s) ==
    LET subscriptions == s.subscriptions
    IN  IF subscriptions.empty THEN FALSE
        ELSE IF subscriptions.count < 3 THEN FALSE
        ELSE IF subscriptions.monthly_recurring_spend >= 5000 THEN TRUE
        ELSE IF subscriptions.percentage_of_spending >= 1000 THEN TRUE
        ELSE FALSE

matches_savings_builder(s) ==
    LET savings == s.savings
        credit == s.credit
        savings_criteria_met ==
            savings.growth_rate >= 200 \/ savings.monthly_inflow >= 20000
    IN  IF savings.empty THEN FALSE
        ELSE IF ~savings_criteria_met THEN FALSE
        ELSE IF ~credit.empty /\ credit.overall_utilization >= 3000 THEN FALSE
        ELSE TRUE

matches_debt_consolidator(s) ==
    LET credit == s.credit
        income == s.income
        utilization == credit.overall_utilization
    IN  IF credit.empty THEN FALSE
        ELSE IF utilization < 3000 \/ utilization >= 7000 THEN FALSE
        ELSE IF CardsWithBalance(credit.per_card) < 2 THEN FALSE
        ELSE IF credit.monthly_interest <= 0 THEN FALSE
        ELSE IF "overdue" \in credit.flags THEN FALSE
        ELSE IF ~income.empty /\ income.frequency = "unknown" THEN FALSE
        ELSE TRUE

\* The if/elif chain of services/personas.assign_persona.
PredicateChain(s) ==
    LET persona_type ==
            IF matches_high_utilization(s) THEN "high_utilization"
            ELSE IF matches_variable_income(s) THEN "variable_income"
            ELSE IF matches_debt_consolidator(s) THEN "debt_consolidator"
            ELSE IF matches_subscription_heavy(s) THEN "subscription_heavy"
            ELSE IF matches_savings_builder(s) THEN "savings_builder"
            ELSE "balanced"
    IN  [persona_type |-> persona_type, confidence |-> CONFIDENCE_SCORES[persona_type]]

\* C29: for every BehaviorSignals value, records left empty included, the
\* predicate chain of services/personas.assign_persona and the confidence
\* chain of personas/assignment.assign_persona select the same
\* persona_type.
C29_ClassifiersAgree ==
    pstate = "done" => assigned.persona_type = PredicateChain(signals).persona_type

\* The two chains differ on the debt consolidator with no income record
\* and nowhere else.
ClassifiersAgreeWithIncomeRecord ==
    (pstate = "done" /\ ~signals.income.empty) =>
        assigned.persona_type = PredicateChain(signals).persona_type

\* C19: debt_consolidator matches (confidence > 0) exactly when overall
\* utilization is in [30, 70), at least 2 cards of per_card have a balance
\* > 0, monthly_interest > 0, the overdue flag is absent and income data is
\* present with a frequency other than unknown.
C19_DebtConsolidatorMatch ==
    pstate = "done" =>
        LET credit == signals.credit
            income == signals.income
            expected ==
                /\ credit.overall_utilization >= 3000
                /\ credit.overall_utilization < 7000
                /\ \E i, j \in DOMAIN credit.per_card :
                      i # j /\ credit.per_card[i] > 0 /\ credit.per_card[j] > 0
                /\ credit.monthly_interest > 0
                /\ "overdue" \notin credit.flags
                /\ ~income.empty
                /\ income.frequency # "unknown"
        IN  /\ (calculate_debt_consolidator_confidence(signals) > 0) <=> expected
            /\ assigned.persona_type = "debt_consolidator" => expected

\* C19 witness: debt_consolidator has been assigned, and elsewhere the
\* overdue flag alone keeps it from matching.
C19_Witness ==
    /\ pstate = "done"
    /\ assigned.persona_type = "debt_consolidator"
    /\ signals.credit.overall_utilization = 3000
    /\ Len(signals.credit.per_card) = 2

C19_OverdueWitness ==
    /\ pstate = "done"
    /\ signals.credit.overall_utilization = 6000
    /\ signals.credit.monthly_interest > 0
    /\ CardsWithBalance(signals.credit.per_card) >= 2
    /\ "overdue" \in signals.credit.flags
    /\ signals.income.frequency = "biweekly"
    /\ calculate_debt_consolidator_confidence(signals) = 0

\* The graded range of each non-default persona, in hundredths.
ConfidenceRange ==
    [high_utilization |-> <<65, 98>>, variable_income |-> <<75, 95>>,
     debt_consolidator |-> <<75, 92>>, subscription_heavy |-> <<70, 90>>,
     savings_builder |-> <<65, 88>>]

OfferTypes ==
    {"payday_loan", "title_loan", "rent_to_own", "Payday_Loan",
     "personal_loan", "credit_card"}
AprValues == {0, 1999, 3600, 3601, 40000}
MinIncomeValues == {0, 3000000}
GuardOffers ==
    [type : OfferTypes, apr : AprValues, min_income : MinIncomeValues,
     account_type : {"", "savings", "checking"}]
UserAccountLists ==
    {<<>>, <<[subtype |-> "checking"]>>,
     <<[subtype |-> "checking"], [subtype |-> "savings"]>>}
UserDataValues == [annual_income : {0, 5000000}, accounts : UserAccountLists]

InitElig ==
    /\ eligCall \in [offer : GuardOffers, user_data : UserDataValues]
    /\ eligResult = <<>>
    /\ IdlePersona /\ IdleOffers /\ IdleRationale /\ IdleCredit /\ IdleIncome
    /\ IdleService /\ IdleMore

CheckEligibility ==
    /\ eligResult = <<>>
    /\ eligResult' = <<check_eligibility(eligCall.offer, eligCall.user_data)>>
    /\ UNCHANGED <<eligCall, personaVars, offerVars, rationaleVars, creditVars, incomeVars, serviceVars, moreVars>>

NextElig == CheckEligibility

SpecElig == InitElig /\ [][NextElig]_vars

\* C8: check_eligibility returns False for every offer whose type is
\* payday_loan, title_loan or rent_to_own or whose APR is above 36%,
\* whatever the income and the accounts of the user are.
C8_PredatoryNeverEligible ==
    eligResult # <<>> =>
        ((\/ eligCall.offer.type \in {"payday_loan", "title_loan", "rent_to_own"}
          \/ eligCall.offer.apr > 3600)
            => eligResult[1] = FALSE)

\* A 36.01% APR product of an allowed type, offered to a user who meets the
\* income rule and holds no account of the offered type, was refused.
C8_Witness ==
    /\ eligResult = <<FALSE>>
    /\ eligCall.offer.type = "personal_loan"
    /\ eligCall.offer.apr = 3601
    /\ check_income_requirement(eligCall.offer, eligCall.user_data.annual_income)
    /\ ~has_existing_account(eligCall.user_data.accounts, eligCall.offer.account_type)

\* ------------------------------------------------------------------------
\* generate_offers as a pure function of the loaded offers catalog, the
\* persona, the signals, the accounts and the limit.
\* ------------------------------------------------------------------------
RuleKeys ==
    {"min_credit_utilization", "max_credit_utilization",
     "min_credit_score_estimate", "max_credit_score_estimate",
     "min_monthly_income", "required_account_types",
     "excluded_account_subtypes", "required_signals", "excluded_signals",
     "min_emergency_fund_months", "max_emergency_fund_months"}

NoRules ==
    [keys |-> {},
     min_credit_utilization |-> 0, max_credit_utilization |-> 0,
     min_credit_score_estimate |-> 0, max_credit_score_estimate |-> 0,
     min_monthly_income |-> 0,
     required_account_types |-> {}, excluded_account_subtypes |-> {},
     required_signals |-> {}, excluded_signals |-> {},
     min_emergency_fund_months |-> 0, max_emergency_fund_months |-> 0]

CatalogOffer(id, ty, apr, ptags, tags, rules) ==
    [id |-> id, offer_type |-> ty, apr |-> apr, persona_tags |-> ptags,
     signal_tags |-> tags, eligibility_rules |-> rules]

\* Entries an offers catalog file can hold.
OfferPool ==
    { CatalogOffer("balance_transfer_card", "credit_card", 0,
          {"high_utilization", "debt_consolidator"},
          {"high_utilization_50", "interest_charges"},
          [NoRules EXCEPT !.keys = {"min_credit_utilization", "min_credit_score_estimate"},
                          !.min_credit_utilization = 3000,
                          !.min_credit_score_estimate = 580]),
      CatalogOffer("high_yield_savings", "savings_account", 0,
          {"savings_builder", "balanced", "variable_income"},
          {"positive_savings", "low_emergency_fund"},
          [NoRules EXCEPT !.keys = {"required_account_types", "excluded_account_subtypes"},
                          !.required_account_types = {"depository"},
                          !.excluded_account_subtypes = {"high_yield_savings"}]),
      CatalogOffer("fast_cash_advance", "payday_loan", 39900,
          {"high_utilization", "variable_income"},
          {"variable_income"},
          NoRules),
      CatalogOffer("consolidation_loan", "personal_loan", 4500,
          {"high_utilization", "debt_consolidator"},
          {"interest_charges"},
          [NoRules EXCEPT !.keys = {"min_monthly_income", "max_credit_utilization"},
                          !.min_monthly_income = 300000,
                          !.max_credit_utilization = 9000]),
      CatalogOffer("budgeting_app", "app", 0,
          {"subscription_heavy", "balanced", "variable_income", "high_utilization"},
          {"subscription_heavy", "variable_income"},
          [NoRules EXCEPT !.keys = {"excluded_signals", "max_emergency_fund_months"},
                          !.excluded_signals = {"overdue"},
                          !.max_emergency_fund_months = 300]),
      CatalogOffer("credit_builder_loan", "personal_loan", 1200,
          {"high_utilization"},
          {"overdue", "high_utilization_80", "interest_charges"},
          [NoRules EXCEPT !.keys = {"required_signals", "max_credit_score_estimate"},
                          !.required_signals = {"interest_charges"},
                          !.max_credit_score_estimate = 669]) }

MaxCatalog == 3

\* Catalogs: lists of distinct pool entries, in any order.
Catalogs ==
    UNION {{q \in [1..n -> OfferPool] : \A i, j \in 1..n : q[i] = q[j] => i = j}
              : n \in 0..MaxCatalog}

OfferCredit ==
    {EmptyCredit}
    \cup {[EmptyCredit EXCEPT !.empty = FALSE, !.overall_utilization = cf[1], !.flags = cf[2]]
            : cf \in {<<2000, {}>>, <<5500, {}>>, <<5500, {"interest_charges"}>>,
                      <<9500, {"interest_charges", "overdue"}>>}}
OfferIncome ==
    {EmptyIncome,
     [EmptyIncome EXCEPT !.empty = FALSE, !.frequency = "variable",
                         !.average_amount = 250000, !.median_gap_days = 60]}
OfferSavings ==
    {EmptySavings,
     [EmptySavings EXCEPT !.empty = FALSE, !.monthly_inflow = 30000,
                          !.emergency_fund_months = 450]}
OfferSubscriptions ==
    {EmptySubscriptions, [EmptySubscriptions EXCEPT !.empty = FALSE, !.count = 4]}

AccountLists ==
    {<<>>,
     <<[type |-> "depository", subtype |-> "checking"]>>,
     <<[type |-> "depository", subtype |-> "checking"],
       [type |-> "depository", subtype |-> "high_yield_savings"],
       [type |-> "credit", subtype |-> "credit_card"]>>}

InitOffers ==
    /\ \E cat \in Catalogs, p \in SeqToSet(PERSONA_PRIORITY),
          c \in OfferCredit, i \in OfferIncome, v \in OfferSavings,
          u \in OfferSubscriptions, acc \in AccountLists, lim \in {1, OfferLimit} :
            offerCall = [catalog |-> cat, persona_type |-> p,
                         signals |-> BehaviorSignals(u, v, c, i),
                         accounts |-> acc, limit |-> lim]
    /\ offerResult = <<>>
    /\ IdlePersona /\ IdleElig /\ IdleRationale /\ IdleCredit /\ IdleIncome
    /\ IdleService /\ IdleMore

GenerateOffers ==
    /\ offerResult = <<>>
    /\ offerResult' = <<generate_offers(offerCall.catalog, offerCall.persona_type,
                                         offerCall.signals, offerCall.accounts,
                                         offerCall.limit)>>
    /\ UNCHANGED <<offerCall, personaVars, eligVars, rationaleVars, creditVars, incomeVars, serviceVars, moreVars>>

NextOffers == GenerateOffers

SpecOffers == InitOffers /\ [][NextOffers]_vars

\* The catalog entry a returned offer was built from.
CatalogEntry(id) == CHOOSE o \in SeqToSet(offerCall.catalog) : o.id = id

\* The predatory-product block applied to a catalog entry.
PassesPredatoryBlock(o) ==
    ~is_predatory_product([type |-> o.offer_type, apr |-> o.apr])

\* C7: every offer returned by generate_offers has passed the
\* predatory-product block and every eligibility rule of its catalog entry,
\* and carries eligibility_met = True.
C7_ReturnedOffersPassAllChecks ==
    offerResult # <<>> =>
        \A k \in DOMAIN offerResult[1] :
            LET r == offerResult[1][k]
                o == CatalogEntry(r.id)
            IN  /\ PassesPredatoryBlock(o)
                /\ _check_eligibility(o, offerCall.signals, offerCall.accounts,
                                      _extract_signal_tags(offerCall.signals))
                /\ r.eligibility_met = TRUE

\* ------------------------------------------------------------------------
\* Rationale generation and the tone guardrail: the generator, the persona,
\* the signals and the selected items are drawn at the start; the two
\* rationale functions and the engine's assembly loop are called on them.
\* ------------------------------------------------------------------------
MaxItems == 2

\* Texts an overriding generator may produce.
OverrideTexts ==
    { <<>>,
      Words(<<"You're", "overspending", "on", "subscriptions">>),
      Words(<<"Youre", "overspending">>),
      Words(<<"Your", "spending", "was", "Irresponsible">>),
      Words(<<"these", "are", "Bad", "financial", "habits">>),
      Words(<<"a", "careless", "purchase">>),
      Words(<<"you", "are", "wasting", "money">>),
      Words(<<"poor", "choices", "were", "made">>),
      Words(<<"a", "financial", "mistake">>),
      Words(<<"bad", "decisions">>),
      Words(<<"foolish", "and", "stupid">>),
      Words(<<"RECKLESS", "spending">>),
      Words(<<"healthy", "financial", "habits">>),
      Words(<<"spending", "carelessly">>),
      Words(<<"wasting", "time", "and", "money">>),
      Words(<<"overspending", "is", "common">>) }

Generators ==
    {[overridden |-> FALSE, text |-> <<>>]}
    \cup {[overridden |-> TRUE, text |-> x] : x \in OverrideTexts}

RationaleCredit ==
    {EmptyCredit,
     [EmptyCredit EXCEPT !.empty = FALSE, !.overall_utilization = 1875,
                         !.total_balance = 150050, !.total_limit = 800000],
     [EmptyCredit EXCEPT !.empty = FALSE, !.overall_utilization = 8546,
                         !.total_balance = 854600, !.total_limit = 1000000,
                         !.flags = {"interest_charges", "overdue"}]}
RationaleIncome ==
    {EmptyIncome,
     [EmptyIncome EXCEPT !.empty = FALSE, !.frequency = "biweekly",
                         !.stability = "stable", !.average_amount = 250000,
                         !.buffer_months = 125, !.median_gap_days = 14]}
RationaleSavings ==
    {EmptySavings,
     [EmptySavings EXCEPT !.empty = FALSE, !.total_balance = 500000,
                          !.monthly_inflow = 30050, !.growth_rate = 312,
                          !.emergency_fund_months = 250]}

PersonaArguments == SeqToSet(PERSONA_PRIORITY) \cup {""}

InitRationale ==
    /\ \E g \in Generators, p \in PersonaArguments, conf \in {85},
          c \in RationaleCredit, i \in RationaleIncome, v \in RationaleSavings,
          ne \in 0..MaxItems, no \in 0..MaxItems :
            rationaleCall =
                [generator |-> g, persona_type |-> p, confidence |-> conf,
                 signals |-> BehaviorSignals(EmptySubscriptions, v, c, i),
                 education_items |-> [k \in 1..ne |-> k],
                 offer_items |-> [k \in 1..no |-> k]]
    /\ rationaleResult = <<>>
    /\ contentResult = <<>>
    /\ engineResult = <<>>
    /\ IdlePersona /\ IdleElig /\ IdleOffers /\ IdleCredit /\ IdleIncome
    /\ IdleService /\ IdleMore

GenerateRationale ==
    /\ rationaleResult = <<>>
    /\ rationaleResult' =
          <<generate_rationale(rationaleCall.generator, rationaleCall.persona_type,
                               rationaleCall.confidence, rationaleCall.signals)>>
    /\ UNCHANGED <<rationaleCall, contentResult, engineResult,
                   personaVars, eligVars, offerVars, creditVars, incomeVars,
                   serviceVars, moreVars>>

GenerateContentRationale ==
    /\ contentResult = <<>>
    /\ contentResult' =
          <<generate_content_rationale(rationaleCall.generator,
                                       rationaleCall.persona_type,
                                       rationaleCall.confidence,
                                       rationaleCall.signals)>>
    /\ UNCHANGED <<rationaleCall, rationaleResult, engineResult,
                   personaVars, eligVars, offerVars, creditVars, incomeVars,
                   serviceVars, moreVars>>

\* The engine only runs with a persona returned by assign_persona.
AssembleRecommendations ==
    /\ engineResult = <<>>
    /\ rationaleCall.persona_type # ""
    /\ engineResult' =
          <<BuildRecommendations(rationaleCall.generator, rationaleCall.persona_type,
                                 rationaleCall.confidence, rationaleCall.signals,
                                 rationaleCall.education_items,
                                 rationaleCall.offer_items)>>
    /\ UNCHANGED <<rationaleCall, rationaleResult, contentResult,
                   personaVars, eligVars, offerVars, creditVars, incomeVars,
                   serviceVars, moreVars>>

NextRationale ==
    \/ GenerateRationale
    \/ GenerateContentRationale
    \/ AssembleRecommendations

SpecRationale == InitRationale /\ [][NextRationale]_vars

\* An outcome is sound for a rendered text: a text with a shame-pattern
\* match gives an exception and no Rationale; a returned Rationale carries
\* the whole rendered text, and that text has no match.
ToneSound(result, rendered) ==
    result # <<>> =>
        /\ ToneViolations(rendered) # {} =>
              (result[1].raised # "" /\ result[1].value = <<>>)
        /\ result[1].value # <<>> =>
              /\ result[1].value[1].explanation = rendered
              /\ ToneViolations(result[1].value[1].explanation) = {}

\* C6: if the rendered explanation matches a shame pattern,
\* generate_rationale and generate_content_rationale raise and return no
\* Rationale; a returned text is the whole rendered text; and no
\* recommendation assembled by the engine carries an explanation with a
\* match.
C6_ToneViolationBlocksRationale ==
    LET c == rationaleCall
        tags == _extract_signal_tags(c.signals)
    IN  /\ ToneSound(rationaleResult,
                     RenderExplanation(c.generator, c.persona_type, c.signals))
        /\ ToneSound(contentResult,
                     RenderContentExplanation(c.generator, c.persona_type,
                                              c.signals, tags))
        /\ (engineResult # <<>> /\ engineResult[1].value # <<>>) =>
              LET res == engineResult[1].value[1]
              IN  /\ \A k \in DOMAIN res.education_recommendations :
                        ToneViolations(
                            res.education_recommendations[k].rationale.explanation) = {}
                  /\ \A k \in DOMAIN res.offer_recommendations :
                        ToneViolations(
                            res.offer_recommendations[k].rationale.explanation) = {}

\* A generator rendered "Your spending was Irresponsible": both rationale
\* functions raised, and the engine, with items selected, returned nothing.
C6_Witness ==
    /\ rationaleCall.generator.overridden
    /\ rationaleCall.generator.text = Words(<<"Your", "spending", "was", "Irresponsible">>)
    /\ rationaleCall.offer_items # <<>>
    /\ rationaleResult # <<>> /\ rationaleResult[1].raised = "Tone guardrail violation"
    /\ contentResult # <<>> /\ contentResult[1].value = <<>>
    /\ engineResult # <<>> /\ engineResult[1].value = <<>>

\* The words by which a template names its persona, after "You've been
\* identified as a".
PersonaLabel(persona_type) ==
    CASE persona_type = "high_utilization" -> <<"High", "Utilization">>
      [] persona_type = "variable_income" -> <<"Variable", "Income">>
      [] persona_type = "debt_consolidator" -> <<"Debt", "Consolidator">>
      [] persona_type = "subscription_heavy" -> <<"Subscription", "Heavy">>
      [] persona_type = "savings_builder" -> <<"Savings", "Builder">>
      [] OTHER -> <<"Balanced">>

\* The signal fields a template substitutes as numbers.
SignalFields ==
    {"overall_utilization", "total_balance", "total_limit", "median_gap_days",
     "average_amount", "buffer_months", "count", "monthly_recurring_spend",
     "percentage_of_spending", "growth_rate", "monthly_inflow"}

\* C17: for each of the six persona types the explanation rendered by
\* generate_rationale names the persona that was passed, never another
\* one, and holds at least one number substituted from the signals.
C17_ExplanationOfAssignedPersona ==
    (/\ rationaleResult # <<>>
     /\ rationaleResult[1].raised = ""
     /\ ~rationaleCall.generator.overridden) =>
        LET explanation == rationaleResult[1].value[1].explanation
            label == PersonaLabel(rationaleCall.persona_type)
        IN  /\ Len(explanation) >= 5 + Len(label)
            /\ \A k \in DOMAIN label : explanation[5 + k].word = label[k]
            /\ \E i \in DOMAIN explanation : explanation[i].word \in SignalFields

\* C16: every Rationale that generate_rationale returns has a non-empty
\* key_signals list.
C16_KeySignalsNonEmpty ==
    (rationaleResult # <<>> /\ rationaleResult[1].raised = "") =>
        rationaleResult[1].value[1].key_signals # <<>>

\* ------------------------------------------------------------------------
\* analyze_credit as a pure function of the account list.
\* ------------------------------------------------------------------------
MaxAccounts == 2

\* (balance, limit) in cents; 8999 / 30000 is 29.9967%, which rounds to 30.00.
BalanceLimitPairs ==
    {<<0, 0>>, <<5000, 0>>, <<0, 30000>>, <<-2000, 30000>>,
     <<8999, 30000>>, <<9000, 30000>>, <<14999, 30000>>,
     <<15000, 30000>>, <<23999, 30000>>, <<24000, 30000>>,
     <<36000, 30000>>}

CreditAccount(bl, apr, overdue, last, minp) ==
    [type |-> "credit", balance |-> bl[1], limit |-> bl[2], apr |-> apr,
     is_overdue |-> overdue, last_payment_amount |-> last, min_payment |-> minp]

AccountPool ==
    {[type |-> "depository", balance |-> 250000, limit |-> 0, apr |-> 0,
      is_overdue |-> FALSE, last_payment_amount |-> 0, min_payment |-> 0]}
    \cup {CreditAccount(bl, 0, FALSE, 0, 0) : bl \in BalanceLimitPairs}
    \cup {CreditAccount(bl, 2499, TRUE, 2700, 2500) : bl \in BalanceLimitPairs}

InitCredit ==
    /\ \E n \in 0..MaxAccounts : creditCall \in [1..n -> AccountPool]
    /\ creditResult = <<>>
    /\ IdlePersona /\ IdleElig /\ IdleOffers /\ IdleRationale /\ IdleIncome
    /\ IdleService /\ IdleMore

AnalyzeCredit ==
    /\ creditResult = <<>>
    /\ creditResult' = <<analyze_credit(creditCall)>>
    /\ UNCHANGED <<creditCall, personaVars, eligVars, offerVars, rationaleVars, incomeVars, serviceVars, moreVars>>

NextCredit == AnalyzeCredit

SpecCredit == InitCredit /\ [][NextCredit]_vars

BandFlags == {"high_utilization_80", "high_utilization_50", "moderate_utilization_30"}

\* Totals over the credit accounts of the call.
CallBalance ==
    SumSeq([i \in DOMAIN creditCall |->
               IF creditCall[i].type = "credit" THEN creditCall[i].balance ELSE 0])
CallLimit ==
    SumSeq([i \in DOMAIN creditCall |->
               IF creditCall[i].type = "credit" THEN creditCall[i].limit ELSE 0])

\* C9: the flags returned by analyze_credit hold at most one utilization
\* band flag; the one present is the flag of the highest threshold (80, 50,
\* 30) that total_balance / total_limit * 100 reaches; none is present when
\* utilization is below 30% or the total limit is 0.
C9_OneUtilizationBandFlag ==
    creditResult # <<>> =>
        LET flags == creditResult[1].flags
            bands == {i \in DOMAIN flags : flags[i] \in BandFlags}
            present(f) == \E i \in DOMAIN flags : flags[i] = f
            reaches(th) == CallLimit # 0 /\ 100 * CallBalance >= th * CallLimit
        IN  /\ Cardinality(bands) <= 1
            /\ present("high_utilization_80") => reaches(80)
            /\ present("high_utilization_50") => (reaches(50) /\ ~reaches(80))
            /\ present("moderate_utilization_30") => (reaches(30) /\ ~reaches(50))
            /\ (CallLimit = 0 \/ ~reaches(30)) => bands = {}

\* Two cards whose totals give 39000 / 60000 = 65%: only the 50% band
\* flag is present although the 30% threshold is reached as well.
C9_Witness ==
    /\ creditResult # <<>>
    /\ Len(creditCall) = 2
    /\ CallBalance = 39000 /\ CallLimit = 60000
    /\ \E i \in DOMAIN creditResult[1].flags :
          creditResult[1].flags[i] = "high_utilization_50"
    /\ \E i \in DOMAIN creditResult[1].flags : creditResult[1].flags[i] = "overdue"

\* ------------------------------------------------------------------------
\* analyze_income as a pure function of the transaction list and the window.
\* ------------------------------------------------------------------------
MaxTxns == 3

Txn(category, amount, date) == [category |-> category, amount |-> amount, date |-> date]

\* Income is negative, spending positive; category "" is a transaction
\* without the key.
TxnPool ==
    {Txn("INCOME", a, d) : a \in {-50, -45, 0, 20}, d \in {0, 14, 75}}
    \cup {Txn("FOOD_AND_DRINK", 30, 5), Txn("FOOD_AND_DRINK", -10, 5), Txn("", 25, 5)}

WindowValues == {0, 30, 180}

InitIncome ==
    /\ \E n \in 0..MaxTxns, w \in WindowValues :
          \E txns \in [1..n -> TxnPool] :
              incomeCall = [transactions |-> txns, window_days |-> w]
    /\ incomeResult = <<>>
    /\ IdlePersona /\ IdleElig /\ IdleOffers /\ IdleRationale /\ IdleCredit
    /\ IdleService /\ IdleMore

AnalyzeIncome ==
    /\ incomeResult = <<>>
    /\ incomeResult' = <<analyze_income(incomeCall.transactions, incomeCall.window_days)>>
    /\ UNCHANGED <<incomeCall, personaVars, eligVars, offerVars, rationaleVars, creditVars, serviceVars, moreVars>>

NextIncome == AnalyzeIncome

SpecIncome == InitIncome /\ [][NextIncome]_vars

IncomeCount ==
    Cardinality({i \in DOMAIN incomeCall.transactions :
                    incomeCall.transactions[i].category = "INCOME"})

MaxGaps == 3

GapValues == {5, 6, 8, 9, 12, 13, 16, 17, 27, 28, 32, 33}

\* The dates of a series that starts on day 0 and has the given gaps.
SeriesDates(gaps) == [i \in 1..(Len(gaps) + 1) |-> SumSeq(SubSeq(gaps, 1, i - 1))]

InitIncomeSeries ==
    /\ \E n \in 1..MaxGaps, reversed \in BOOLEAN, w \in {30, 180} :
          \E gaps \in [1..n -> GapValues] :
              LET dates == SeriesDates(gaps)
                  k == Len(dates)
              IN  incomeCall =
                      [transactions |->
                          [i \in 1..k |->
                              Txn("INCOME", -50,
                                  IF reversed THEN dates[k + 1 - i] ELSE dates[i])],
                       window_days |-> w]
    /\ incomeResult = <<>>
    /\ IdlePersona /\ IdleElig /\ IdleOffers /\ IdleRationale /\ IdleCredit
    /\ IdleService /\ IdleMore

SpecIncomeSeries == InitIncomeSeries /\ [][NextIncome]_vars

\* Twice the median of the day gaps between the date-sorted income
\* transactions of the call (twice, to keep a median of x.5 exact).
TwiceMedianGap ==
    LET dates == SortAscending([i \in DOMAIN incomeCall.transactions |->
                                   incomeCall.transactions[i].date])
        gaps == SortAscending([i \in 1..(Len(dates) - 1) |-> dates[i + 1] - dates[i]])
        n == Len(gaps)
    IN  IF n % 2 = 1 THEN 2 * gaps[(n + 1) \div 2]
        ELSE gaps[n \div 2] + gaps[n \div 2 + 1]

\* C21: for an income series of at least 2 income transactions of non-zero
\* total, frequency is biweekly exactly when the median gap lies in
\* [13, 16], monthly exactly when it lies in [28, 32], weekly exactly when
\* it lies in [6, 8], and variable otherwise, a median such as 16.5
\* included.
C21_FrequencyByMedianGap ==
    (incomeResult # <<>> /\ IncomeCount >= 2) =>
        LET m == TwiceMedianGap
            frequency == incomeResult[1].frequency
        IN  /\ (frequency = "biweekly") <=> (26 <= m /\ m <= 32)
            /\ (frequency = "monthly") <=> (56 <= m /\ m <= 64)
            /\ (frequency = "weekly") <=> (12 <= m /\ m <= 16)
            /\ (frequency = "variable")
                  <=> ~(\/ (26 <= m /\ m <= 32)
                        \/ (56 <= m /\ m <= 64)
                        \/ (12 <= m /\ m <= 16))

\* The same statement for the series whose median gap is a whole number.
FrequencyByWholeMedianGap ==
    TwiceMedianGap % 2 = 0 => C21_FrequencyByMedianGap

\* ------------------------------------------------------------------------
\* analyze_income on two pay cheques next to drawn spending.
\* ------------------------------------------------------------------------
MaxSpending == 2

PayValues == {-100, -50, 0}

\* Debits, a refund, a debit without category, a debit tagged INCOME.
SpendingPool ==
    {Txn("FOOD_AND_DRINK", 30, 5), Txn("RENT_AND_UTILITIES", 150, 3),
     Txn("GENERAL_MERCHANDISE", 201, 7), Txn("FOOD_AND_DRINK", -10, 5),
     Txn("", 25, 5), Txn("INCOME", 40, 9)}

BufferWindows == {0, 30, 180}

InitIncomeBuffer ==
    /\ \E a \in PayValues, b \in PayValues, n \in 0..MaxSpending, w \in BufferWindows :
          \E spending \in [1..n -> SpendingPool] :
              incomeCall = [transactions |->
                                <<Txn("INCOME", a, 0)>> \o spending \o <<Txn("INCOME", b, 14)>>,
                            window_days |-> w]
    /\ incomeResult = <<>>
    /\ IdlePersona /\ IdleElig /\ IdleOffers /\ IdleRationale /\ IdleCredit
    /\ IdleService /\ IdleMore

SpecIncomeBuffer == InitIncomeBuffer /\ [][NextIncome]_vars

\* Total income and total non-income debits of the call.
CallIncome ==
    SumSeq([i \in DOMAIN incomeCall.transactions |->
               IF incomeCall.transactions[i].category = "INCOME"
               THEN Abs(incomeCall.transactions[i].amount) ELSE 0])

CallDebits ==
    SumSeq([i \in DOMAIN incomeCall.transactions |->
               IF /\ incomeCall.transactions[i].category # "INCOME"
                  /\ incomeCall.transactions[i].amount > 0
               THEN incomeCall.transactions[i].amount ELSE 0])

C22_ZeroRateWitness ==
    /\ incomeResult # <<>>
    /\ CallIncome = 150 /\ CallDebits = 0
    /\ incomeResult[1].frequency = "biweekly"
    /\ incomeResult[1].buffer_months = 0

\* ------------------------------------------------------------------------
\* The service: concurrent get_user_insights calls (ui/insights.py) over
\* the users, persona and override tables.  A call runs in four steps, cut
\* at its awaits: user lookup and consent check; compute_signals; the
\* persona chain with the insert and commit; selection, rationales and the
\* override filter.
\* ------------------------------------------------------------------------
MaxCalls == 3
MaxClock == 1
MaxChanges == 1

\* (user_id, window) arguments of the calls; "nobody" is not in the users
\* table, 90 is a window the endpoint accepts and the engine refuses.
CallArgs ==
    {<<"u1", 30>>, <<"u2", 180>>, <<"u1", 90>>, <<"nobody", 30>>}

HighUtilSignals ==
    [ZeroSignals EXCEPT
        !.credit = [@ EXCEPT !.overall_utilization = 8500, !.total_balance = 850000,
                             !.total_limit = 1000000, !.monthly_interest = 15000,
                             !.flags = {"interest_charges", "overdue"},
                             !.per_card = <<850000>>]]
SaverSignals ==
    [ZeroSignals EXCEPT
        !.savings = [@ EXCEPT !.total_balance = 500000, !.monthly_inflow = 30000,
                              !.growth_rate = 300, !.emergency_fund_months = 250],
        !.credit = [@ EXCEPT !.overall_utilization = 1000, !.total_balance = 10000,
                             !.total_limit = 100000, !.per_card = <<10000>>]]

Profiles ==
    {[accounts |-> <<>>, signals |-> ZeroSignals],
     [accounts |-> <<[type |-> "credit", subtype |-> "credit_card"]>>,
      signals |-> HighUtilSignals],
     [accounts |-> <<[type |-> "depository", subtype |-> "checking"],
                     [type |-> "credit", subtype |-> "credit_card"]>>,
      signals |-> SaverSignals]}

EducationItem(id, ptags, tags) ==
    [id |-> id, persona_tags |-> ptags, signal_tags |-> tags]

EducationCatalog ==
    << EducationItem("credit_utilization_101", {"high_utilization"},
                     {"high_utilization_80", "high_utilization_50"}),
       EducationItem("debt_paydown", {"high_utilization", "debt_consolidator"},
                     {"interest_charges", "overdue"}),
       EducationItem("emergency_fund", {"savings_builder", "balanced", "variable_income"},
                     {"low_emergency_fund", "positive_savings"}),
       EducationItem("budgeting_basics", {"balanced"}, {}) >>

OfferById(id) == CHOOSE o \in OfferPool : o.id = id

OffersCatalog ==
    << OfferById("balance_transfer_card"), OfferById("high_yield_savings"),
       OfferById("budgeting_app"), OfferById("credit_builder_loan") >>

\* Users whose consent, data and overrides change while calls run.
ChangingUsers == {"u1"}

FlaggableIds == {"debt_paydown", "high_yield_savings"}

BuiltinGenerator == [overridden |-> FALSE, text |-> <<>>]

Response(status, consent_required, persona_type, confidence, education, offers) ==
    [status |-> status, consent_required |-> consent_required,
     persona_type |-> persona_type, confidence |-> confidence,
     education_recommendations |-> education, offer_recommendations |-> offers]

ErrorResponse(status) == Response(status, FALSE, "", 0, <<>>, <<>>)

InitService ==
    /\ \E c \in ConsentValues : consent = [u \in Users |-> IF u = "u1" THEN c ELSE "True"]
    /\ \E p \in Profiles :
          profile = [u \in Users |->
                        IF u = "u1" THEN p
                        ELSE [accounts |-> <<[type |-> "depository", subtype |-> "checking"],
                                             [type |-> "credit", subtype |-> "credit_card"]>>,
                              signals |-> SaverSignals]]
    /\ overrides = {}
    /\ personas = <<>>
    /\ clock = 0
    /\ calls = [slot \in Slots |-> IdleCall]
    /\ returns = <<>>
    /\ started = 0
    /\ changes = 0
    /\ approvals = {}
    /\ operatorResponse = NoRequest
    /\ IdlePersona /\ IdleElig /\ IdleOffers /\ IdleRationale /\ IdleCredit /\ IdleIncome
    /\ IdleMore

\* Variant of the input validation that checks the user_id only.
InputErrorUserOnly(user_id, window_days) ==
    IF user_id = "" THEN "user_id is required" ELSE ""

\* services/recommendation_engine.py generate_recommendations, "Validate
\* inputs": the message of the ValueError raised, "" if none.
InputError(user_id, window_days) ==
    IF user_id = "" THEN "user_id is required"
    ELSE IF window_days \notin {30, 180} THEN "window_days must be 30 or 180"
    ELSE ""

otherVars ==
    <<personaVars, eligVars, offerVars, rationaleVars, creditVars, incomeVars,
      moreVars>>

SetCall(slot, call) == calls' = [calls EXCEPT ![slot] = call]

\* ui/insights.py get_user_insights up to its first await inside the
\* engine: user lookup, consent check, the engine's argument validation.
GetUserInsights(slot, u, w) ==
    /\ calls[slot].pc \in {"idle", "done"}
    /\ started < MaxCalls
    \* Slots are interchangeable: "b" is taken only while "a" is busy.
    /\ slot = "b" => calls["a"].pc \notin {"idle", "done"}
    /\ started' = started + 1
    /\ LET call == [IdleCall EXCEPT !.user_id = u, !.window = w,
                                    !.entry = "get_user_insights"]
       IN  IF u \notin Users
           THEN SetCall(slot, [call EXCEPT !.pc = "done",
                                           !.response = ErrorResponse(404)])
           ELSE IF ~check_consent(consent[u])
           THEN SetCall(slot, [call EXCEPT
                    !.pc = "done", !.consent_seen = consent[u],
                    !.response = Response(200, TRUE, "consent_required", 0,
                                          <<>>, <<>>)])
           ELSE IF InputError(u, w) # ""
           THEN SetCall(slot, [call EXCEPT !.pc = "done",
                                           !.consent_seen = consent[u],
                                           !.response = ErrorResponse(500)])
           ELSE SetCall(slot, [call EXCEPT !.pc = "compute",
                                           !.consent_seen = consent[u]])
    /\ UNCHANGED <<consent, profile, overrides, personas, clock, returns, changes,
                   otherVars, operatorVars>>

\* StandardRecommendationEngine.generate_recommendations called directly,
\* up to its first await: the argument validation.
GenerateRecommendations(slot, u, w) ==
    /\ calls[slot].pc \in {"idle", "done"}
    /\ started < MaxCalls
    /\ slot = "b" => calls["a"].pc \notin {"idle", "done"}
    /\ started' = started + 1
    /\ LET call == [IdleCall EXCEPT !.user_id = u, !.window = w,
                                    !.entry = "generate_recommendations"]
       IN  IF InputError(u, w) # ""
           THEN SetCall(slot, [call EXCEPT !.pc = "done", !.raised = "ValueError"])
           ELSE SetCall(slot, [call EXCEPT !.pc = "compute"])
    /\ UNCHANGED <<consent, profile, overrides, personas, clock, returns, changes,
                   otherVars, operatorVars>>

\* features/signals.py compute_signals, called first by assign_persona.
ComputeSignals(slot) ==
    /\ calls[slot].pc = "compute"
    /\ LET call == calls[slot]
       IN  IF call.user_id \notin Users \/ profile[call.user_id].accounts = <<>>
           THEN SetCall(slot, [call EXCEPT
                    !.pc = "done",
                    !.raised = IF call.entry = "generate_recommendations"
                               THEN "HTTPException" ELSE "",
                    !.response = IF call.entry = "generate_recommendations"
                                 THEN NoResponse ELSE ErrorResponse(404)])
           ELSE SetCall(slot, [call EXCEPT !.pc = "assign",
                                           !.signals = profile[call.user_id].signals])
    /\ UNCHANGED <<consent, profile, overrides, personas, clock, returns, started,
                   changes, otherVars, operatorVars>>

\* assign_persona after compute_signals: the chain, datetime.now(), the
\* insert and its commit, and the returned dict.
AssignPersona(slot) ==
    /\ calls[slot].pc = "assign"
    /\ \E now \in {clock, clock + 1} :
          /\ now <= MaxClock
          /\ LET call == calls[slot]
                 chain == PersonaChain(call.signals)
             IN  /\ personas' = SavePersona(personas, call.user_id,
                                            WindowStr(call.window),
                                            chain.persona_type, chain.confidence, now)
                 /\ returns' = Append(returns,
                        [user_id |-> call.user_id, window_days |-> call.window,
                         persona_type |-> chain.persona_type,
                         confidence |-> chain.confidence,
                         signals |-> call.signals, assigned_at |-> now])
                 /\ SetCall(slot, [call EXCEPT !.pc = "recommend",
                                               !.persona_type = chain.persona_type,
                                               !.confidence = chain.confidence])
          /\ clock' = now
    /\ UNCHANGED <<consent, profile, overrides, started, changes, otherVars, operatorVars>>

\* Variant in which an approval of the same recommendation lifts the flag.
flagged_ids_unless_approved(user_id) ==
    {o[2] : o \in {x \in overrides : x[1] = user_id /\ x \notin approvals}}

\* The set comprehension of get_user_insights over the rows of the user
\* with action "flag".
flagged_ids(user_id) == {o[2] : o \in {x \in overrides : x[1] = user_id}}

\* The rest of generate_recommendations and of get_user_insights: accounts
\* query, selection, rationales, override filter, response.
RecommendUsing(slot, generator) ==
    /\ calls[slot].pc = "recommend"
    /\ LET call == calls[slot]
           accounts == profile[call.user_id].accounts
           education_items ==
               generate_education(EducationCatalog, call.persona_type,
                                  call.signals, OfferLimit)
           offer_items ==
               generate_offers(OffersCatalog, call.persona_type, call.signals,
                               accounts, OfferLimit)
           built == BuildRecommendations(generator, call.persona_type,
                                         call.confidence, call.signals,
                                         education_items, offer_items)
           \* the override filter belongs to get_user_insights
           NotFlagged(item) ==
               \/ call.entry = "generate_recommendations"
               \/ item.id \notin flagged_ids(call.user_id)
           education == SelectSeq(education_items, NotFlagged)
           offers == SelectSeq(offer_items, NotFlagged)
           \* schemas/insight.py declares relevance_score as a float with
           \* le=1.0: _convert_*_recommendation raises a validation error for
           \* a 1-5 score above 1, which get_user_insights answers with 500.
           SchemaAccepts(item) == item.relevance_score <= 1
           rejected ==
               /\ call.entry = "get_user_insights"
               /\ \/ \E i \in DOMAIN education : ~SchemaAccepts(education[i])
                  \/ \E i \in DOMAIN offers : ~SchemaAccepts(offers[i])
       IN  IF built.raised # ""
           THEN SetCall(slot, [call EXCEPT
                    !.pc = "done",
                    !.raised = IF call.entry = "generate_recommendations"
                               THEN "ValueError" ELSE "",
                    !.response = IF call.entry = "generate_recommendations"
                                 THEN NoResponse ELSE ErrorResponse(500)])
           ELSE IF rejected
           THEN SetCall(slot, [call EXCEPT !.pc = "done",
                                           !.response = ErrorResponse(500)])
           ELSE SetCall(slot, [call EXCEPT
                    !.pc = "done", !.signals = DefaultSignals,
                    !.response = Response(200, FALSE, call.persona_type,
                                          call.confidence,
                                          [i \in DOMAIN education |-> education[i].id],
                                          [i \in DOMAIN offers |-> offers[i].id])])
    /\ UNCHANGED <<consent, profile, overrides, personas, clock, returns, started,
                   changes, otherVars, operatorVars>>

\* The engine as ui/insights.py builds it: StandardRecommendationEngine()
\* with the default TemplateGenerator.
Recommend(slot) == RecommendUsing(slot, BuiltinGenerator)

\* routers/users.py update_consent for an existing user.
UpdateConsent(u, v) ==
    /\ changes < MaxChanges
    /\ u \in ChangingUsers
    /\ changes' = changes + 1
    /\ consent' = [consent EXCEPT ![u] = IF v THEN "True" ELSE "False"]
    /\ UNCHANGED <<profile, overrides, personas, clock, calls, returns, started,
                   otherVars, operatorVars>>

\* New account and transaction data arrives for a user.
DataChange(u, p) ==
    /\ changes < MaxChanges
    /\ u \in ChangingUsers
    /\ changes' = changes + 1
    /\ profile[u] # p
    /\ profile' = [profile EXCEPT ![u] = p]
    /\ UNCHANGED <<consent, overrides, personas, clock, calls, returns, started,
                   otherVars, operatorVars>>

\* routers/operator.py flag_recommendation: action, reason and user are
\* checked in this order, then the row is added and committed.
flag_recommendation(request) ==
    LET status == IF request.action # "flag" THEN 400
                  ELSE IF request.reason = "" THEN 400
                  ELSE IF request.user_id \notin Users THEN 404
                  ELSE 201
    IN  /\ changes' = changes + 1
        /\ overrides' = IF status = 201
                        THEN overrides \cup {<<request.user_id, request.recommendation_id>>}
                        ELSE overrides
        /\ operatorResponse' = OperatorResponse("flag", request, status)
        /\ UNCHANGED <<approvals, consent, profile, personas, clock, calls, returns,
                       started, otherVars>>

\* routers/operator.py approve_recommendation.
approve_recommendation(request) ==
    LET status == IF request.action # "approve" THEN 400
                  ELSE IF request.user_id \notin Users THEN 404
                  ELSE 201
    IN  /\ changes' = changes + 1
        /\ approvals' = IF status = 201
                        THEN approvals \cup {<<request.user_id, request.recommendation_id>>}
                        ELSE approvals
        /\ operatorResponse' = OperatorResponse("approve", request, status)
        /\ UNCHANGED <<overrides, consent, profile, personas, clock, calls, returns,
                       started, otherVars>>

\* flag_recommendation with a well-formed request for an existing user.
FlagRecommendation(u, id) ==
    /\ changes < MaxChanges
    /\ u \in ChangingUsers
    /\ flag_recommendation(ApprovalRequest(u, id, "flag", "quality"))

NextService ==
    \/ \E slot \in Slots, a \in CallArgs : GetUserInsights(slot, a[1], a[2])
    \/ \E slot \in Slots : ComputeSignals(slot)
    \/ \E slot \in Slots : AssignPersona(slot)
    \/ \E slot \in Slots : Recommend(slot)
    \/ \E u \in Users, v \in BOOLEAN : UpdateConsent(u, v)
    \/ \E u \in Users, p \in Profiles : DataChange(u, p)
    \/ \E u \in Users, id \in FlaggableIds : FlagRecommendation(u, id)

SpecService == InitService /\ [][NextService]_vars

\* C3: every assign_persona call that returns adds exactly one record to
\* the personas table, with the user, the window as "<days>d", and the
\* persona_type, confidence and assigned_at the call returns; no step
\* changes or removes a record already there, also when calls for the same
\* user and window interleave.
C3_EachCallAppendsOneRecord ==
    [][ /\ \A i \in DOMAIN personas :
              i \in DOMAIN personas' /\ personas'[i] = personas[i]
        /\ Len(personas') - Len(personas) = Len(returns') - Len(returns)
        /\ Len(returns') > Len(returns) =>
              LET r == returns'[Len(returns')]
                  rec == personas'[Len(personas')]
              IN  /\ Len(returns') = Len(returns) + 1
                  /\ rec.user_id = r.user_id
                  /\ r.window_days = 30 => rec.window = "30d"
                  /\ r.window_days = 180 => rec.window = "180d"
                  /\ rec.persona_type = r.persona_type
                  /\ rec.confidence = r.confidence
                  /\ rec.assigned_at = r.assigned_at
      ]_vars

\* Two calls for the same user and window were in flight together and both
\* have assigned: the table holds one record for each.
C3_Witness ==
    /\ calls["a"].pc = "recommend" /\ calls["b"].pc = "recommend"
    /\ calls["a"].user_id = calls["b"].user_id
    /\ calls["a"].window = calls["b"].window
    /\ Len(personas) = 2
    /\ personas[1].user_id = personas[2].user_id
    /\ personas[1].window = personas[2].window
    /\ personas[1].id # personas[2].id

EngineArgs ==
    {<<"u1", 30>>, <<"u2", 180>>, <<"u1", 45>>, <<"u2", 0>>, <<"u1", 90>>,
     <<"", 30>>, <<"", 90>>, <<"nobody", 180>>}

NextEngine ==
    \/ \E slot \in Slots, a \in EngineArgs : GenerateRecommendations(slot, a[1], a[2])
    \/ \E slot \in Slots : ComputeSignals(slot)
    \/ \E slot \in Slots : AssignPersona(slot)
    \/ \E slot \in Slots : Recommend(slot)

SpecEngine == InitService /\ [][NextEngine]_vars

\* ------------------------------------------------------------------------
\* The operator endpoints next to get_user_insights: flag and approve
\* requests arrive while insights are requested.
\* ------------------------------------------------------------------------
MaxRequests == 2
MaxOperatorCalls == 2

OperatorCallArgs == {<<"u1", 30>>, <<"u2", 180>>}

OperatorRequests ==
    {ApprovalRequest(u, id, action, reason) :
        u \in {"u1", "u2", "nobody"}, id \in {"emergency_fund"},
        action \in {"flag", "approve"}, reason \in {"", "quality"}}

\* Flags recorded by earlier requests: the three recommendations of u1
\* that score above 1.
PriorFlags ==
    {<<"u1", "debt_paydown">>, <<"u1", "credit_utilization_101">>,
     <<"u1", "credit_builder_loan">>}

InitOperator ==
    /\ consent = [u \in Users |-> "True"]
    /\ profile = [u \in Users |->
                     IF u = "u1"
                     THEN [accounts |-> <<[type |-> "credit", subtype |-> "credit_card"]>>,
                           signals |-> HighUtilSignals]
                     ELSE [accounts |-> <<[type |-> "depository", subtype |-> "checking"],
                                          [type |-> "credit", subtype |-> "credit_card"]>>,
                           signals |-> SaverSignals]]
    /\ overrides \in {{}, PriorFlags}
    /\ approvals = {}
    /\ operatorResponse = NoRequest
    /\ personas = <<>>
    /\ clock = 0
    /\ calls = [slot \in Slots |-> IdleCall]
    /\ returns = <<>>
    /\ started = 0
    /\ changes = 0
    /\ IdlePersona /\ IdleElig /\ IdleOffers /\ IdleRationale /\ IdleCredit /\ IdleIncome
    /\ IdleMore

NextOperator ==
    \/ \E slot \in Slots, a \in OperatorCallArgs :
          started < MaxOperatorCalls /\ GetUserInsights(slot, a[1], a[2])
    \/ \E slot \in Slots : ComputeSignals(slot)
    \/ \E slot \in Slots : AssignPersona(slot)
    \/ \E slot \in Slots : Recommend(slot)
    \/ \E request \in OperatorRequests :
          changes < MaxRequests /\ flag_recommendation(request)
    \/ \E request \in OperatorRequests :
          changes < MaxRequests /\ approve_recommendation(request)

SpecOperator == InitOperator /\ [][NextOperator]_vars

\* The ids the engine selects for a call before any filter.
GeneratedIds(call) ==
    LET education_items ==
            generate_education(EducationCatalog, call.persona_type, call.signals,
                               OfferLimit)
        offer_items ==
            generate_offers(OffersCatalog, call.persona_type, call.signals,
                            profile[call.user_id].accounts, OfferLimit)
    IN  {education_items[i].id : i \in DOMAIN education_items}
            \cup {offer_items[i].id : i \in DOMAIN offer_items}

ResponseIds(response) ==
    SeqToSet(response.education_recommendations)
        \cup SeqToSet(response.offer_recommendations)

\* A flag request the endpoint refuses.
RejectedFlag(request) ==
    \/ request.action # "flag"
    \/ request.reason = ""
    \/ request.user_id \notin Users

\* One step of the operator endpoints.
OperatorStep ==
    LET r == operatorResponse'
        row == <<r.request.user_id, r.request.recommendation_id>>
    IN  changes' # changes =>
            /\ (r.endpoint = "flag" /\ ~RejectedFlag(r.request)) =>
                  r.status = 201 /\ row \in overrides'
            /\ (r.endpoint = "flag" /\ RejectedFlag(r.request)) =>
                  /\ r.status \in {400, 404}
                  /\ overrides' = overrides
                  /\ approvals' = approvals
            /\ r.endpoint = "approve" => overrides' = overrides

\* One get_user_insights call answers with its lists.
InsightsStep ==
    \A slot \in Slots :
        (/\ calls[slot].pc = "recommend"
         /\ calls[slot].entry = "get_user_insights"
         /\ calls'[slot].pc = "done"
         /\ calls'[slot].response.status = 200) =>
            LET u == calls[slot].user_id
                kept == ResponseIds(calls'[slot].response)
            IN  /\ \A row \in overrides : row[1] = u => row[2] \notin kept
                /\ \A id \in GeneratedIds(calls[slot]) :
                      <<u, id>> \notin overrides => id \in kept

C30_OtherUserWitness ==
    /\ <<"u2", "emergency_fund">> \in overrides
    /\ <<"u1", "emergency_fund">> \notin overrides
    /\ \E slot \in Slots :
          /\ calls[slot].pc = "done"
          /\ calls[slot].user_id = "u1"
          /\ calls[slot].response.status = 200
          /\ calls[slot].response.education_recommendations = <<"emergency_fund">>

\* A refused flag request is the last request made.
C30_RejectedWitness ==
    /\ operatorResponse.endpoint = "flag"
    /\ operatorResponse.status \in {400, 404}
    /\ overrides = PriorFlags

\* ------------------------------------------------------------------------
\* Engines built with a content generator of their own:
\* StandardRecommendationEngine(content_generator=...).
\* ------------------------------------------------------------------------
EngineGenerators ==
    {BuiltinGenerator,
     [overridden |-> TRUE, text |-> Words(<<"You're", "overspending", "on", "subscriptions">>)],
     [overridden |-> TRUE, text |-> Words(<<"Your", "plan", "covers", "three", "months">>)]}

NextCustomEngine ==
    \/ \E slot \in Slots, a \in EngineArgs : GenerateRecommendations(slot, a[1], a[2])
    \/ \E slot \in Slots : ComputeSignals(slot)
    \/ \E slot \in Slots : AssignPersona(slot)
    \/ \E slot \in Slots, g \in EngineGenerators : RecommendUsing(slot, g)

SpecCustomEngine == InitService /\ [][NextCustomEngine]_vars

\* A finished request that gave its caller no recommendation result.
WithoutResult(call) ==
    /\ call.pc = "done"
    /\ \/ call.raised # ""
       \/ call.entry = "get_user_insights"
            /\ (call.response.status # 200 \/ call.response.consent_required)

\* C26: a request that returns no recommendation result (consent absent,
\* window outside {30, 180}, user without accounts, tone violation in a
\* rationale) has appended nothing to the persona log: only requests that
\* return their result have run the insert of assign_persona (AssignPersona
\* is the one step that fills persona_type, and it appends the record).
C26_FailedRequestLeavesLogUnchanged ==
    \A slot \in Slots :
        WithoutResult(calls[slot]) => calls[slot].persona_type = ""

\* C12: generate_recommendations raises ValueError for every window_days
\* outside {30, 180} and for an empty user_id, before any persona is
\* assigned or any recommendation is produced: such a call ends with the
\* error and no result, and no persona record or assign_persona return
\* ever carries such arguments.
C12_InvalidArgumentsRaiseFirst ==
    /\ \A slot \in Slots :
          LET c == calls[slot]
          IN  (c.entry = "generate_recommendations"
                 /\ (c.user_id = "" \/ c.window \notin {30, 180})) =>
                  /\ c.pc = "done"
                  /\ c.raised = "ValueError"
                  /\ c.persona_type = ""
                  /\ c.response = NoResponse
    /\ \A i \in DOMAIN returns :
          returns[i].user_id # "" /\ returns[i].window_days \in {30, 180}
    /\ \A i \in DOMAIN personas :
          personas[i].user_id # "" /\ personas[i].window \in {"30d", "180d"}

\* C12 witness: after a valid call left its persona record, a call with
\* window_days = 45 has raised ValueError and the table still holds that
\* one record.
C12_Witness ==
    \E slot \in Slots :
        /\ calls[slot].entry = "generate_recommendations"
        /\ calls[slot].window = 45
        /\ calls[slot].raised = "ValueError"
        /\ Len(personas) = 1
        /\ Len(returns) = 1

\* ------------------------------------------------------------------------
\* generate_education as a pure function of the education catalog, the
\* persona, the signals and the limit.
\* ------------------------------------------------------------------------
MaxEducation == 4

RichSignals ==
    [ZeroSignals EXCEPT
        !.credit = [@ EXCEPT !.overall_utilization = 8500, !.monthly_interest = 15000,
                             !.flags = {"interest_charges", "overdue"},
                             !.per_card = <<850000>>],
        !.subscriptions = [@ EXCEPT !.count = 4],
        !.income = [@ EXCEPT !.median_gap_days = 60, !.stability = "stable"]]

EducationSignals == {DefaultSignals, ZeroSignals, HighUtilSignals, RichSignals}

EducationPool ==
    {EducationItem("credit_utilization_101", {"high_utilization"},
                   {"high_utilization_80", "interest_charges"}),
     EducationItem("money_overview", {},
                   {"high_utilization_80", "interest_charges", "overdue",
                    "subscription_heavy", "variable_income", "stable_income"}),
     EducationItem("savings_automation", {"savings_builder"}, {"positive_savings"}),
     EducationItem("debt_paydown", {"high_utilization", "variable_income"}, {}),
     EducationItem("emergency_fund", {"balanced"}, {"low_emergency_fund"}),
     EducationItem("credit_recovery", {"high_utilization"},
                   {"high_utilization_80", "interest_charges", "overdue",
                    "subscription_heavy", "variable_income", "stable_income",
                    "positive_savings"})}

\* Catalogs: sequences of distinct items.
EducationCatalogs(catalog) ==
    \E n \in 0..MaxEducation :
        /\ catalog \in [1..n -> EducationPool]
        /\ \A i, j \in 1..n : i # j => catalog[i] # catalog[j]

InitEducation ==
    /\ \E catalog \in UNION {[1..n -> EducationPool] : n \in 0..MaxEducation},
          persona_type \in {"high_utilization", "savings_builder", "balanced"},
          s \in EducationSignals, limit \in {0, 1, 3} :
            /\ EducationCatalogs(catalog)
            /\ eduCall = [catalog |-> catalog, persona_type |-> persona_type,
                          signals |-> s, limit |-> limit]
    /\ eduResult = <<>>
    /\ IdlePersona /\ IdleElig /\ IdleOffers /\ IdleRationale /\ IdleCredit /\ IdleIncome
    /\ IdleService /\ IdleSubscriptions /\ IdleSavings /\ IdleSignals

GenerateEducation ==
    /\ eduResult = <<>>
    /\ eduResult' = <<generate_education(eduCall.catalog, eduCall.persona_type,
                                         eduCall.signals, eduCall.limit)>>
    /\ UNCHANGED <<eduCall, personaVars, eligVars, offerVars, rationaleVars, creditVars,
                   incomeVars, serviceVars, subscriptionVars, savingsVars,
                   signalVars>>

NextEducation == GenerateEducation

SpecEducation == InitEducation /\ [][NextEducation]_vars

\* raw_score of the catalog item at position i, in tenths.
RawScore(i) ==
    LET item == eduCall.catalog[i]
        shared == item.signal_tags \cap SeqToSet(_extract_signal_tags(eduCall.signals))
        persona == IF eduCall.persona_type \in item.persona_tags THEN 5 ELSE 0
        bonus == IF Cardinality(shared) <= 5 THEN Cardinality(shared) ELSE 5
    IN  IF persona + bonus <= 10 THEN persona + bonus ELSE 10

\* Catalog position of a returned item.
CatalogIndex(id) == CHOOSE i \in DOMAIN eduCall.catalog : eduCall.catalog[i].id = id

\* C13: generate_education returns exactly the catalog items with
\* raw_score > 0, by descending raw_score, equal scores in catalog order,
\* cut to the first `limit`; raw_score = 0.5 for a persona match plus
\* min(0.1 per shared signal tag, 0.5), capped at 1.0.
C13_EducationSelection ==
    eduResult # <<>> =>
        LET res == eduResult[1]
            positive == {i \in DOMAIN eduCall.catalog : RawScore(i) > 0}
            chosen == {CatalogIndex(res[j].id) : j \in DOMAIN res}
            Before(i, k) == \/ RawScore(i) > RawScore(k)
                            \/ RawScore(i) = RawScore(k) /\ i < k
        IN  /\ \A j \in DOMAIN res :
                  \E i \in DOMAIN eduCall.catalog : eduCall.catalog[i].id = res[j].id
            /\ chosen \subseteq positive
            /\ Cardinality(chosen) = Len(res)
            /\ Len(res) = Min(eduCall.limit, Cardinality(positive))
            /\ \A j, k \in DOMAIN res :
                  j < k => Before(CatalogIndex(res[j].id), CatalogIndex(res[k].id))
            /\ \A i \in positive \ chosen : \A k \in chosen : Before(k, i)

\* C13 witness: four catalog items, one with score 0, two with equal
\* scores, an item whose bonus and total are capped; three are returned,
\* the capped one first.
C13_Witness ==
    /\ eduResult # <<>>
    /\ Len(eduCall.catalog) = 4
    /\ Len(eduResult[1]) = 3
    /\ \E i \in DOMAIN eduCall.catalog : RawScore(i) = 0
    /\ \E i, k \in DOMAIN eduCall.catalog : i # k /\ RawScore(i) = RawScore(k)
                                            /\ RawScore(i) > 0
    /\ eduResult[1][1].id = "credit_recovery"
    /\ RawScore(CatalogIndex("credit_recovery")) = 10

\* ------------------------------------------------------------------------
\* Education and offers selected for the same persona and signals, as the
\* engine does in its steps 2 and 4.
\* ------------------------------------------------------------------------
MaxSelectionCatalog == 2

InitSelection ==
    /\ \E catalog \in UNION {[1..n -> EducationPool] : n \in 0..MaxSelectionCatalog},
          offers \in {OffersCatalog, SubSeq(OffersCatalog, 1, 2)},
          persona_type \in {"high_utilization", "savings_builder", "balanced"},
          s \in EducationSignals, acc \in AccountLists :
            /\ EducationCatalogs(catalog)
            /\ eduCall = [catalog |-> catalog, persona_type |-> persona_type,
                          signals |-> s, limit |-> OfferLimit]
            /\ offerCall = [catalog |-> offers, persona_type |-> persona_type,
                            signals |-> s, accounts |-> acc, limit |-> OfferLimit]
    /\ eduResult = <<>>
    /\ offerResult = <<>>
    /\ IdlePersona /\ IdleElig /\ IdleRationale /\ IdleCredit /\ IdleIncome
    /\ IdleService /\ IdleSubscriptions /\ IdleSavings /\ IdleSignals

NextSelection == GenerateEducation \/ GenerateOffers

SpecSelection == InitSelection /\ [][NextSelection]_vars

\* Raw scores in tenths that _calculate_relevance can return.
RawScores == 0..10

TicksPerDay == 2

SubTxn(entity, name, amount, category, date) ==
    [merchant_entity_id |-> entity, merchant_name |-> name, amount |-> amount,
     personal_finance_category_primary |-> category, date |-> date]

NoSubscriptions ==
    [recurring_merchants |-> <<>>, count |-> 0, monthly_recurring_spend |-> 0,
     percentage_of_spending |-> 0]

\* txn.get("merchant_entity_id") or txn.get("merchant_name")
MerchantKey(txn) ==
    IF txn.merchant_entity_id # "" THEN txn.merchant_entity_id ELSE txn.merchant_name

IsDebit(txn) ==
    txn.amount > 0 /\ txn.personal_finance_category_primary # "INCOME"

\* Keys of the defaultdict in insertion order.
RECURSIVE MerchantKeys(_)
MerchantKeys(txns) ==
    IF txns = <<>> THEN <<>>
    ELSE LET front == MerchantKeys(SubSeq(txns, 1, Len(txns) - 1))
             key == MerchantKey(txns[Len(txns)])
         IN  IF key = "" \/ key \in SeqToSet(front) THEN front
             ELSE Append(front, key)

\* (date2 - date1).days for each pair of consecutive sorted transactions.
GapDays(sorted_txns) ==
    [i \in 1..(Len(sorted_txns) - 1) |->
        (sorted_txns[i + 1].date - sorted_txns[i].date) \div TicksPerDay]

\* Variant that classifies by the first gap instead of the average.
CadenceByFirstGap(gaps) ==
    IF gaps = <<>> THEN "none"
    ELSE IF 20 <= gaps[1] /\ gaps[1] <= 45 THEN "monthly"
    ELSE IF 5 <= gaps[1] /\ gaps[1] <= 10 THEN "weekly"
    ELSE "none"

\* avg_gap = sum(gaps) / len(gaps) if gaps else 0, compared with the bands.
Cadence(gaps) ==
    LET n == Len(gaps)
        total == SumSeq(gaps)
    IN  IF n = 0 THEN "none"
        ELSE IF 20 * n <= total /\ total <= 45 * n THEN "monthly"
        ELSE IF 5 * n <= total /\ total <= 10 * n THEN "weekly"
        ELSE "none"

\* The entry appended for one merchant group, <<>> if the group is skipped.
MerchantEntry(merchant_key, debit_transactions) ==
    LET InGroup(txn) == MerchantKey(txn) = merchant_key
        merchant_txns == SelectSeq(debit_transactions, InGroup)
        sorted_txns == SortByDate(merchant_txns)
        frequency == Cadence(GapDays(sorted_txns))
        avg_amount ==
            SumSeq([i \in DOMAIN sorted_txns |-> sorted_txns[i].amount])
                \div Len(sorted_txns)
    IN  IF Len(merchant_txns) < 3 \/ frequency = "none" THEN <<>>
        ELSE << [name |-> IF sorted_txns[1].merchant_entity_id # ""
                          THEN sorted_txns[1].merchant_name ELSE merchant_key,
                 entity_id |-> sorted_txns[1].merchant_entity_id,
                 frequency |-> frequency,
                 avg_amount |-> avg_amount,
                 count |-> Len(sorted_txns),
                 \* int(avg_amount * 4.33) for a weekly merchant
                 monthly_spend |-> IF frequency = "monthly" THEN avg_amount
                                   ELSE (avg_amount * 433) \div 100] >>

RECURSIVE MerchantEntries(_, _)
MerchantEntries(keys, debit_transactions) ==
    IF keys = <<>> THEN <<>>
    ELSE MerchantEntry(Head(keys), debit_transactions)
             \o MerchantEntries(Tail(keys), debit_transactions)

detect_subscriptions(transactions, window_days) ==
    LET debit_transactions == SelectSeq(transactions, IsDebit)
        total_spend ==
            SumSeq([i \in DOMAIN debit_transactions |-> debit_transactions[i].amount])
        entries == MerchantEntries(MerchantKeys(debit_transactions), debit_transactions)
        total_recurring_spend ==
            SumSeq([i \in DOMAIN entries |-> entries[i].monthly_spend])
    IN  IF Len(transactions) < 3 THEN NoSubscriptions
        ELSE IF debit_transactions = <<>> THEN NoSubscriptions
        ELSE IF total_spend = 0 THEN NoSubscriptions
        ELSE [recurring_merchants |->
                  [i \in DOMAIN entries |->
                      [name |-> entries[i].name, entity_id |-> entries[i].entity_id,
                       frequency |-> entries[i].frequency,
                       avg_amount |-> entries[i].avg_amount,
                       count |-> entries[i].count]],
              count |-> Len(entries),
              monthly_recurring_spend |-> total_recurring_spend,
              \* round(x, 2), in hundredths of a percent
              percentage_of_spending |->
                  RoundDiv(total_recurring_spend * window_days * 1000, 3 * total_spend)]

\* ------------------------------------------------------------------------
\* detect_subscriptions as a pure function: the transactions of two
\* merchants on drawn schedules, with other transactions among them.
\* ------------------------------------------------------------------------
MaxCharges == 4

\* Charge dates in ticks (30 days = 60 ticks), in the order stored.
Schedules ==
    {<<>>, <<0, 60>>, <<0, 60, 120>>, <<120, 0, 60>>, <<0, 40, 80>>, <<0, 39, 78>>,
     <<0, 90, 180>>, <<0, 92, 182>>, <<0, 10, 20>>, <<0, 20, 40>>, <<0, 22, 44>>,
     <<0, 8, 16>>, <<0, 40, 78>>, <<0, 30, 90>>, <<0, 0, 0>>}
    \cup {[i \in 1..MaxCharges |-> 60 * (i - 1)]}

Charges(entity, name, amount, schedule) ==
    [i \in DOMAIN schedule |-> SubTxn(entity, name, amount, "ENTERTAINMENT", schedule[i])]

\* Transactions that do not count as charges: an INCOME-category one, a
\* refund (credit), one without a merchant.
OtherTxns ==
    {<<>>,
     <<SubTxn("netflix_inc", "Netflix", 1599, "INCOME", 120)>>,
     <<SubTxn("netflix_inc", "Netflix", -1599, "ENTERTAINMENT", 120)>>,
     <<SubTxn("", "", 700, "FOOD_AND_DRINK", 10)>>}

InitSubscriptions ==
    /\ \E a \in Schedules, b \in Schedules, x \in OtherTxns,
          reversed \in BOOLEAN, w \in {30, 180} :
            LET netflix == Charges("netflix_inc", "Netflix", 1599, a)
                gym == Charges("", "Gym", 500, b)
            IN  subsCall = [transactions |-> IF reversed THEN x \o gym \o netflix
                                             ELSE netflix \o gym \o x,
                            window_days |-> w]
    /\ subsResult = <<>>
    /\ IdlePersona /\ IdleElig /\ IdleOffers /\ IdleRationale /\ IdleCredit /\ IdleIncome
    /\ IdleService /\ IdleSelection /\ IdleSavings /\ IdleSignals

DetectSubscriptions ==
    /\ subsResult = <<>>
    /\ subsResult' = <<detect_subscriptions(subsCall.transactions, subsCall.window_days)>>
    /\ UNCHANGED <<subsCall, personaVars, eligVars, offerVars, rationaleVars, creditVars,
                   incomeVars, serviceVars, selectionVars, savingsVars,
                   signalVars>>

NextSubscriptions == DetectSubscriptions

SpecSubscriptions == InitSubscriptions /\ [][NextSubscriptions]_vars

\* The non-income debit transactions of a merchant in the call.
ChargesOf(key) ==
    LET Counts(txn) ==
            /\ txn.amount > 0
            /\ txn.personal_finance_category_primary # "INCOME"
            /\ (IF txn.merchant_entity_id # "" THEN txn.merchant_entity_id
                ELSE txn.merchant_name) = key
    IN  SelectSeq(subsCall.transactions, Counts)

\* The average whole-day gap between the date-sorted charges of a merchant
\* lies in [lo, hi].
AverageGapIn(key, lo, hi) ==
    LET charges == ChargesOf(key)
        dates == SortAscending([i \in DOMAIN charges |-> charges[i].date])
        n == Len(dates) - 1
        total == SumSeq([i \in 1..n |-> (dates[i + 1] - dates[i]) \div TicksPerDay])
    IN  n > 0 /\ lo * n <= total /\ total <= hi * n

EntryKey(e) == IF e.entity_id # "" THEN e.entity_id ELSE e.name

\* C15: every entry of recurring_merchants comes from a merchant group of
\* at least 3 non-income debit transactions whose average gap is in
\* [20, 45] days (monthly) or [5, 10] days (weekly); a group with fewer
\* than 3 occurrences or an average gap outside both bands has no entry;
\* count is the number of entries.
C15_RecurringMerchants ==
    subsResult # <<>> =>
        LET res == subsResult[1]
            entries == res.recurring_merchants
            keys == {MerchantKey(subsCall.transactions[i]) :
                        i \in DOMAIN subsCall.transactions} \ {""}
        IN  /\ res.count = Len(entries)
            /\ \A i \in DOMAIN entries :
                  LET e == entries[i]
                  IN  /\ Len(ChargesOf(EntryKey(e))) >= 3
                      /\ e.count = Len(ChargesOf(EntryKey(e)))
                      /\ e.frequency \in {"monthly", "weekly"}
                      /\ e.frequency = "monthly" => AverageGapIn(EntryKey(e), 20, 45)
                      /\ e.frequency = "weekly" => AverageGapIn(EntryKey(e), 5, 10)
            /\ \A i, j \in DOMAIN entries : i # j => EntryKey(entries[i]) # EntryKey(entries[j])
            /\ \A key \in keys :
                  (Len(ChargesOf(key)) < 3
                     \/ ~(AverageGapIn(key, 20, 45) \/ AverageGapIn(key, 5, 10)))
                  => ~\E i \in DOMAIN entries : EntryKey(entries[i]) = key

\* C27: percentage_of_spending returned by detect_subscriptions lies
\* between 0 and 100 (0 and 10000 hundredths of a percent), for windows of
\* 30 and of 180 days and every transaction list.
C27_PercentageOfSpendingInRange ==
    subsResult # <<>> =>
        /\ subsResult[1].percentage_of_spending >= 0
        /\ subsResult[1].percentage_of_spending <= 10000

\* The share is never negative.
PercentageOfSpendingNonNegative ==
    subsResult # <<>> => subsResult[1].percentage_of_spending >= 0

\* C15 witness: the scenario of the claim.  Four charges of $15.99 spaced
\* 30 days apart give a monthly entry, while a second merchant with three
\* charges 11 days apart has none.
C15_Witness ==
    /\ subsResult # <<>>
    /\ subsResult[1].count = 1
    /\ subsResult[1].recurring_merchants[1] =
          [name |-> "Netflix", entity_id |-> "netflix_inc", frequency |-> "monthly",
           avg_amount |-> 1599, count |-> 4]
    /\ Len(ChargesOf("Gym")) = 3
    /\ AverageGapIn("Gym", 11, 11)

\* ------------------------------------------------------------------------
\* features/savings.py and the analyze_savings of services/features.py.
\* Balances and amounts in cents; growth_rate and emergency_fund_months in
\* hundredths, as round(x, 2) returns them.  A transaction's date is its
\* age in days at the time of the call.
\* ------------------------------------------------------------------------
SavingsAccount(id, subtype, balance) == [id |-> id, subtype |-> subtype, balance |-> balance]

\* category is the key the transaction dicts of services/features.py
\* carry, personal_finance_category_primary the one of features/signals.py.
SavingsTxn(account_id, date, amount, category) ==
    [account_id |-> account_id, date |-> date, amount |-> amount,
     category |-> category, personal_finance_category_primary |-> category]

savings_subtypes == {"savings", "money_market", "cd"}

\* int(x / (window_days / 30)): truncation toward zero.
MonthlyRate(x, window_days) ==
    IF window_days > 0
    THEN IF x >= 0 THEN (x * 30) \div window_days ELSE -(((-x) * 30) \div window_days)
    ELSE 0

\* A float: either a finite number of hundredths or float('inf').
Finite(hundredths) == [inf |-> FALSE, hundredths |-> hundredths]
Infinity == [inf |-> TRUE, hundredths |-> 0]

NoSavingsAccounts ==
    [total_balance |-> 0, net_inflow |-> 0, monthly_inflow |-> 0, growth_rate |-> 0,
     emergency_fund_months |-> Finite(0)]

SavingsAccountsOf(accounts) == SelectSeq(accounts, LAMBDA acc : acc.subtype \in savings_subtypes)

SavingsBalance(accounts) ==
    LET savings_accounts == SavingsAccountsOf(accounts)
    IN  SumSeq([i \in DOMAIN savings_accounts |-> savings_accounts[i].balance])

SavingsAccountIds(accounts) ==
    {SavingsAccountsOf(accounts)[i].id : i \in DOMAIN SavingsAccountsOf(accounts)}

InWindow(transactions, window_days) ==
    SelectSeq(transactions, LAMBDA txn : ~(txn.date > window_days))

NetInflow(accounts, transactions, window_days) ==
    LET savings_transactions ==
            SelectSeq(InWindow(transactions, window_days),
                      LAMBDA txn : txn.account_id \in SavingsAccountIds(accounts))
        credits == SumSeq([i \in DOMAIN savings_transactions |->
                             IF savings_transactions[i].amount < 0
                             THEN Abs(savings_transactions[i].amount) ELSE 0])
        debits == SumSeq([i \in DOMAIN savings_transactions |->
                            IF savings_transactions[i].amount > 0
                            THEN savings_transactions[i].amount ELSE 0])
    IN  credits - debits

\* features/savings.py: debits of ALL transactions passed, whatever their
\* date and account, except those of category INCOME.
monthly_expenses(accounts, transactions, window_days) ==
    LET total_debits ==
            SumSeq([i \in DOMAIN transactions |->
                      IF /\ transactions[i].amount > 0
                         /\ transactions[i].personal_finance_category_primary # "INCOME"
                      THEN transactions[i].amount ELSE 0])
    IN  MonthlyRate(total_debits, window_days)

\* services/features.py: debits of the in-window transactions of the
\* accounts that are not savings accounts.
services_monthly_expenses(accounts, transactions, window_days) ==
    LET non_savings_transactions ==
            SelectSeq(InWindow(transactions, window_days),
                      LAMBDA txn : txn.account_id \notin SavingsAccountIds(accounts))
        total_debits ==
            SumSeq([i \in DOMAIN non_savings_transactions |->
                      IF /\ non_savings_transactions[i].amount > 0
                         /\ non_savings_transactions[i].category # "INCOME"
                      THEN non_savings_transactions[i].amount ELSE 0])
    IN  MonthlyRate(total_debits, window_days)

SavingsRecord(accounts, transactions, window_days, emergency_fund_months) ==
    LET total_savings_balance == SavingsBalance(accounts)
        net_inflow == NetInflow(accounts, transactions, window_days)
    IN  [total_balance |-> total_savings_balance,
         net_inflow |-> net_inflow,
         monthly_inflow |-> MonthlyRate(net_inflow, window_days),
         growth_rate |-> IF total_savings_balance > 0
                         THEN RoundDiv(net_inflow * 10000, total_savings_balance)
                         ELSE 0,
         emergency_fund_months |-> emergency_fund_months]

\* features/savings.py
analyze_savings(accounts, transactions, window_days) ==
    LET total_savings_balance == SavingsBalance(accounts)
        expenses == monthly_expenses(accounts, transactions, window_days)
    IN  IF SavingsAccountsOf(accounts) = <<>> THEN NoSavingsAccounts
        ELSE SavingsRecord(accounts, transactions, window_days,
                 IF expenses > 0 THEN Finite(RoundDiv(total_savings_balance * 100, expenses))
                 ELSE IF total_savings_balance > 0 THEN Finite(99900)
                 ELSE Finite(0))

\* services/features.py
services_analyze_savings(accounts, transactions, window_days) ==
    LET total_savings_balance == SavingsBalance(accounts)
        expenses == services_monthly_expenses(accounts, transactions, window_days)
    IN  IF SavingsAccountsOf(accounts) = <<>> THEN NoSavingsAccounts
        ELSE SavingsRecord(accounts, transactions, window_days,
                 IF expenses > 0 THEN Finite(RoundDiv(total_savings_balance * 100, expenses))
                 ELSE IF total_savings_balance > 0 THEN Infinity
                 ELSE Finite(0))

\* ------------------------------------------------------------------------
\* analyze_savings as a pure function of drawn accounts and transactions.
\* ------------------------------------------------------------------------
SavingsAccountLists ==
    {<<>>,
     <<SavingsAccount("chk", "checking", 80000)>>,
     <<SavingsAccount("chk", "checking", 80000), SavingsAccount("sav", "savings", 500000)>>,
     <<SavingsAccount("chk", "checking", 80000), SavingsAccount("sav", "savings", 0)>>,
     <<SavingsAccount("sav", "money_market", 300000), SavingsAccount("cd1", "cd", 200001)>>,
     <<SavingsAccount("chk", "checking", 80000), SavingsAccount("sav", "cd", -5000)>>}

\* A spend, a pay cheque, a withdrawal from savings, a spend before every
\* window, a debit of category INCOME, a deposit into savings, a spend too
\* small to make a monthly cent over 90 days.
SavingsTxnPool ==
    <<SavingsTxn("chk", 10, 120000, "FOOD_AND_DRINK"),
      SavingsTxn("chk", 10, -250000, "INCOME"),
      SavingsTxn("sav", 10, 30000, "TRANSFER_OUT"),
      SavingsTxn("chk", 200, 90000, "GENERAL_MERCHANDISE"),
      SavingsTxn("chk", 10, 5000, "INCOME"),
      SavingsTxn("sav", 10, -20000, "TRANSFER_IN"),
      SavingsTxn("chk", 10, 1, "BANK_FEES")>>

SavingsTxnLists ==
    {SelectSeq(SavingsTxnPool, LAMBDA txn : \E i \in keep : SavingsTxnPool[i] = txn) :
        keep \in SUBSET (DOMAIN SavingsTxnPool)}

SavingsWindows == {0, 30, 90, 180}

InitSavings ==
    /\ \E m \in {"features.savings", "services.features"}, acc \in SavingsAccountLists,
          txns \in SavingsTxnLists, w \in SavingsWindows :
            savingsCall = [module |-> m, accounts |-> acc, transactions |-> txns,
                           window_days |-> w]
    /\ savingsResult = <<>>
    /\ IdlePersona /\ IdleElig /\ IdleOffers /\ IdleRationale /\ IdleCredit /\ IdleIncome
    /\ IdleService /\ IdleSelection /\ IdleSubscriptions /\ IdleSignals

AnalyzeSavings ==
    /\ savingsResult = <<>>
    /\ savingsCall.module = "features.savings"
    /\ savingsResult' = <<analyze_savings(savingsCall.accounts, savingsCall.transactions,
                                          savingsCall.window_days)>>
    /\ UNCHANGED <<savingsCall, personaVars, eligVars, offerVars, rationaleVars, creditVars,
                   incomeVars, serviceVars, selectionVars, subscriptionVars,
                   signalVars>>

ServicesAnalyzeSavings ==
    /\ savingsResult = <<>>
    /\ savingsCall.module = "services.features"
    /\ savingsResult' = <<services_analyze_savings(savingsCall.accounts,
                                                   savingsCall.transactions,
                                                   savingsCall.window_days)>>
    /\ UNCHANGED <<savingsCall, personaVars, eligVars, offerVars, rationaleVars, creditVars,
                   incomeVars, serviceVars, selectionVars, subscriptionVars,
                   signalVars>>

NextSavings == AnalyzeSavings \/ ServicesAnalyzeSavings

SpecSavings == InitSavings /\ [][NextSavings]_vars

\* The monthly expense rate of the call, as the called module computes it.
ExpenseRate ==
    IF savingsCall.module = "features.savings"
    THEN monthly_expenses(savingsCall.accounts, savingsCall.transactions,
                          savingsCall.window_days)
    ELSE services_monthly_expenses(savingsCall.accounts, savingsCall.transactions,
                                   savingsCall.window_days)

\* C18: emergency_fund_months returned by analyze_savings is finite for
\* every input: 999.0 when the savings balance is positive and the monthly
\* expense rate is 0, 0.0 when the balance is not positive and the rate is
\* 0, and balance / rate (to two decimals) otherwise.
C18_EmergencyFundMonthsFinite ==
    savingsResult # <<>> =>
        LET months == savingsResult[1].emergency_fund_months
            balance == SavingsBalance(savingsCall.accounts)
        IN  /\ ~months.inf
            /\ (ExpenseRate = 0 /\ balance > 0) => months = Finite(99900)
            /\ (ExpenseRate = 0 /\ balance <= 0) => months = Finite(0)
            /\ ExpenseRate > 0 => months = Finite(RoundDiv(balance * 100, ExpenseRate))

\* The same statement of the analyze_savings of features/savings.py alone.
FeaturesSavingsFinite ==
    savingsCall # <<>> /\ savingsCall.module = "features.savings" =>
        C18_EmergencyFundMonthsFinite

\* ------------------------------------------------------------------------
\* features/signals.py compute_signals on stored accounts and transactions,
\* followed by the chain of personas/assignment.py assign_persona.  A
\* transaction's date is a day number; the call is made on day Today.
\* unset holds the names of the nullable columns of an account that are
\* NULL (None in the account dict); their numeric fields then hold 0.
\* ------------------------------------------------------------------------
Today == 200

NullableColumns == {"limit", "apr", "min_payment", "last_payment_amount"}

Card(id, balance, limit, apr, is_overdue, last_payment_amount, min_payment, unset) ==
    [id |-> id, type |-> "credit", subtype |-> "credit_card", balance |-> balance,
     limit |-> limit, apr |-> apr, is_overdue |-> is_overdue,
     last_payment_amount |-> last_payment_amount, min_payment |-> min_payment,
     unset |-> unset]

Depository(id, subtype, balance) ==
    [id |-> id, type |-> "depository", subtype |-> subtype, balance |-> balance,
     limit |-> 0, apr |-> 0, is_overdue |-> FALSE, last_payment_amount |-> 0,
     min_payment |-> 0, unset |-> NullableColumns]

UserTxn(account_id, date, amount, entity, name, category) ==
    [account_id |-> account_id, date |-> date, amount |-> amount,
     merchant_entity_id |-> entity, merchant_name |-> name,
     personal_finance_category_primary |-> category]

\* The select of compute_signals: transactions joined to the user's
\* accounts, dated on or after the cutoff, ordered by date.
WindowTransactions(accounts, transactions, window_days) ==
    SortByDate(SelectSeq(transactions,
        LAMBDA txn : /\ \E i \in DOMAIN accounts : accounts[i].id = txn.account_id
                     /\ txn.date >= Today - window_days))

\* The has_minimum_payment_only loop compares None with a number: for the
\* first account whose min_payment is None, or whose min_payment is > 0
\* while last_payment_amount is None, unless the loop has left before.
MinimumPaymentLoopRaises(credit_accounts) ==
    \E i \in DOMAIN credit_accounts :
        /\ \/ "min_payment" \in credit_accounts[i].unset
           \/ /\ credit_accounts[i].min_payment > 0
              /\ "last_payment_amount" \in credit_accounts[i].unset
        /\ \A j \in 1..(i - 1) :
              ~(/\ credit_accounts[j].min_payment > 0
                /\ 0 < credit_accounts[j].last_payment_amount
                /\ 10 * credit_accounts[j].last_payment_amount
                      <= 11 * credit_accounts[j].min_payment)

\* analyze_credit raises TypeError: sum over a None limit, balance * None
\* for apr, or a comparison in the minimum-payment loop.
CreditTypeError(accounts) ==
    LET credit_accounts == SelectSeq(accounts, IsCredit)
    IN  \/ \E i \in DOMAIN credit_accounts :
              \/ "limit" \in credit_accounts[i].unset
              \/ "apr" \in credit_accounts[i].unset
        \/ MinimumPaymentLoopRaises(credit_accounts)

\* The transaction dicts as each detector reads them.  They carry
\* personal_finance_category_primary and no "category" key, so
\* t.get('category') is None for analyze_income.
ForSubscriptions(transactions) ==
    [i \in DOMAIN transactions |->
        SubTxn(transactions[i].merchant_entity_id, transactions[i].merchant_name,
               transactions[i].amount,
               transactions[i].personal_finance_category_primary,
               TicksPerDay * transactions[i].date)]

ForSavings(transactions) ==
    [i \in DOMAIN transactions |->
        SavingsTxn(transactions[i].account_id, Today - transactions[i].date,
                   transactions[i].amount,
                   transactions[i].personal_finance_category_primary)]

ForIncome(transactions) ==
    [i \in DOMAIN transactions |->
        Txn("", transactions[i].amount, transactions[i].date)]

\* Variant in which the category of a transaction reaches analyze_income.
ForIncomeWithCategory(transactions) ==
    [i \in DOMAIN transactions |->
        Txn(transactions[i].personal_finance_category_primary,
            transactions[i].amount, transactions[i].date)]

\* BehaviorSignals(subscriptions, savings, credit, income) of four filled
\* dicts, in the fields the persona functions read.
SignalsOf(subscriptions_data, savings_data, credit_data, income_data) ==
    BehaviorSignals(
        [empty |-> FALSE, count |-> subscriptions_data.count,
         monthly_recurring_spend |-> subscriptions_data.monthly_recurring_spend,
         percentage_of_spending |-> subscriptions_data.percentage_of_spending],
        [empty |-> FALSE, total_balance |-> savings_data.total_balance,
         monthly_inflow |-> savings_data.monthly_inflow,
         growth_rate |-> savings_data.growth_rate,
         emergency_fund_months |-> savings_data.emergency_fund_months.hundredths],
        [empty |-> FALSE, overall_utilization |-> credit_data.overall_utilization,
         total_balance |-> credit_data.total_balance,
         total_limit |-> credit_data.total_limit,
         monthly_interest |-> credit_data.monthly_interest,
         flags |-> SeqToSet(credit_data.flags),
         per_card |-> [i \in DOMAIN credit_data.per_card |->
                          credit_data.per_card[i].balance]],
        [empty |-> FALSE, frequency |-> income_data.frequency,
         stability |-> income_data.stability,
         average_amount |-> income_data.average_amount,
         buffer_months |-> income_data.buffer_months,
         median_gap_days |-> income_data.median_gap_days])

SignalsOutcome(status, s) == [status |-> status, signals |-> s]

\* status 200 stands for a returned BehaviorSignals, 404 and 500 for the
\* HTTPException raised.
compute_signals(accounts, all_transactions, window_days) ==
    LET transactions == WindowTransactions(accounts, all_transactions, window_days)
    IN  IF accounts = <<>> THEN SignalsOutcome(404, DefaultSignals)
        ELSE IF CreditTypeError(accounts) THEN SignalsOutcome(500, DefaultSignals)
        ELSE SignalsOutcome(200,
                 SignalsOf(detect_subscriptions(ForSubscriptions(transactions), window_days),
                           analyze_savings(accounts, ForSavings(transactions), window_days),
                           analyze_credit(accounts),
                           analyze_income(ForIncome(transactions), window_days)))

\* assign_persona: the outcome of compute_signals with the persona chosen.
AssignOutcome(accounts, all_transactions, window_days) ==
    LET computed == compute_signals(accounts, all_transactions, window_days)
        chain == PersonaChain(computed.signals)
    IN  [status |-> computed.status,
         signals |-> computed.signals,
         persona_type |-> IF computed.status = 200 THEN chain.persona_type ELSE "",
         confidence |-> IF computed.status = 200 THEN chain.confidence ELSE 0]

\* ------------------------------------------------------------------------
\* The users of the database, one after the other, through assign_persona.
\* A user is a choice of cards, of deposit accounts, of pay cheques, of
\* subscriptions, of a savings deposit, of spending, and of the window.
\* ------------------------------------------------------------------------
CardChoices ==
    <<<<>>,
      <<Card("c1", 10000, 100000, 0, FALSE, 5000, 2500, {})>>,
      <<Card("c1", 40000, 100000, 2000, FALSE, 10000, 2500, {}),
        Card("c2", 40000, 100000, 2000, FALSE, 10000, 2500, {})>>,
      <<Card("c1", 40000, 100000, 0, FALSE, 10000, 2500, {}),
        Card("c2", 40000, 100000, 0, FALSE, 10000, 2500, {})>>,
      <<Card("c1", 90000, 100000, 2499, TRUE, 2700, 2500, {})>>,
      <<Card("c1", 90000, 100000, 2499, FALSE, 0, 0,
             {"min_payment", "last_payment_amount"})>>,
      <<Card("c1", 10000, 0, 0, FALSE, 5000, 2500, {"limit"})>>,
      <<Card("c1", 10000, 100000, 0, FALSE, 5000, 2500, {"apr"})>>,
      <<Card("c1", 10000, 100000, 0, FALSE, 0, 2500, {"last_payment_amount"})>>,
      <<Card("c1", 10000, 100000, 0, FALSE, 0, 0, {"last_payment_amount"})>>>>

DepositChoices ==
    <<<<Depository("chk", "checking", 80000)>>,
      <<Depository("chk", "checking", 80000), Depository("sav", "savings", 500000)>>,
      <<>>>>

PayChoices ==
    <<<<>>,
      <<UserTxn("chk", 181, -1000, "", "Employer", "INCOME"),
        UserTxn("chk", 195, -1000, "", "Employer", "INCOME")>>,
      <<UserTxn("chk", 135, -1000, "", "Client", "INCOME"),
        UserTxn("chk", 195, -1200, "", "Client", "INCOME")>>>>

MonthlyCharges(entity, name, amount) ==
    <<UserTxn("chk", 135, amount, entity, name, "ENTERTAINMENT"),
      UserTxn("chk", 165, amount, entity, name, "ENTERTAINMENT"),
      UserTxn("chk", 195, amount, entity, name, "ENTERTAINMENT")>>

SubscriptionChoices ==
    <<<<>>,
      MonthlyCharges("netflix_inc", "Netflix", 3000)
          \o MonthlyCharges("", "Gym", 3000)
          \o MonthlyCharges("spotify_ab", "Spotify", 3000)>>

DepositTxnChoices ==
    <<<<>>, <<UserTxn("sav", 190, -30000, "", "", "TRANSFER_IN")>>>>

SpendingChoices ==
    <<<<>>, <<UserTxn("chk", 193, 50000, "", "Grocer", "FOOD_AND_DRINK")>>>>

WindowChoices == <<30, 180>>

UserCount ==
    Len(CardChoices) * Len(DepositChoices) * Len(PayChoices) * Len(SubscriptionChoices)
        * Len(DepositTxnChoices) * Len(SpendingChoices) * Len(WindowChoices)

\* The k-th choice of a list, counting from 0 and wrapping around.
Choice(choices, k) == choices[(k % Len(choices)) + 1]

\* The user of number n, 1 <= n <= UserCount.
UserData(n) ==
    LET k1 == n - 1
        k2 == k1 \div Len(CardChoices)
        k3 == k2 \div Len(DepositChoices)
        k4 == k3 \div Len(PayChoices)
        k5 == k4 \div Len(SubscriptionChoices)
        k6 == k5 \div Len(DepositTxnChoices)
        k7 == k6 \div Len(SpendingChoices)
    IN  [user |-> n,
         accounts |-> Choice(DepositChoices, k2) \o Choice(CardChoices, k1),
         transactions |-> Choice(PayChoices, k3) \o Choice(SubscriptionChoices, k4)
                          \o Choice(DepositTxnChoices, k5) \o Choice(SpendingChoices, k6),
         window_days |-> Choice(WindowChoices, k7)]

InitSignals ==
    /\ signalsCall = UserData(1)
    /\ signalsResult = <<>>
    /\ assignedTypes = {}
    /\ IdlePersona /\ IdleElig /\ IdleOffers /\ IdleRationale /\ IdleCredit /\ IdleIncome
    /\ IdleService /\ IdleSelection /\ IdleSubscriptions /\ IdleSavings

\* assign_persona for the current user; the persona row is saved only when
\* compute_signals has not raised.
AssignUserPersona ==
    /\ signalsResult = <<>>
    /\ LET outcome == AssignOutcome(signalsCall.accounts, signalsCall.transactions,
                                    signalsCall.window_days)
       IN  /\ signalsResult' = <<outcome>>
           /\ assignedTypes' = IF outcome.status = 200
                               THEN assignedTypes \cup {outcome.persona_type}
                               ELSE assignedTypes
    /\ UNCHANGED <<signalsCall, personaVars, eligVars, offerVars, rationaleVars, creditVars,
                   incomeVars, serviceVars, selectionVars, subscriptionVars, savingsVars>>

NextUser ==
    /\ signalsResult # <<>>
    /\ signalsCall.user < UserCount
    /\ signalsCall' = UserData(signalsCall.user + 1)
    /\ signalsResult' = <<>>
    /\ UNCHANGED <<assignedTypes, personaVars, eligVars, offerVars, rationaleVars, creditVars,
                   incomeVars, serviceVars, selectionVars, subscriptionVars, savingsVars>>

NextSignals == AssignUserPersona \/ NextUser

SpecSignals == InitSignals /\ [][NextSignals]_vars

AllUsersDone == signalsCall # <<>> /\ signalsCall.user = UserCount /\ signalsResult # <<>>

\* C23: each of the six persona values is assignable: once assign_persona
\* has run for every user, each persona type has been assigned to some
\* user.
C23_EveryPersonaAssignable ==
    AllUsersDone => \A k \in 1..6 : PERSONA_PRIORITY[k] \in assignedTypes

\* The transactions the current user has in the window.
CallWindowTransactions ==
    WindowTransactions(signalsCall.accounts, signalsCall.transactions,
                       signalsCall.window_days)

IncomeInWindow ==
    Cardinality({i \in DOMAIN CallWindowTransactions :
                    /\ CallWindowTransactions[i].personal_finance_category_primary = "INCOME"
                    /\ CallWindowTransactions[i].amount # 0})

\* C24: when compute_signals returns for a user whose window holds at
\* least 2 INCOME transactions of non-zero amount, the income signal has a
\* frequency other than unknown and an average_amount > 0.
C24_IncomeSignalFromIncomeTransactions ==
    (signalsResult # <<>> /\ signalsResult[1].status = 200 /\ IncomeInWindow >= 2) =>
        /\ signalsResult[1].signals.income.frequency # "unknown"
        /\ signalsResult[1].signals.income.average_amount > 0

CallCreditAccounts == SelectSeq(signalsCall.accounts, IsCredit)

\* C25: compute_signals returns a credit signal, without raising, for
\* every user whose credit accounts leave limit, apr, min_payment or
\* last_payment_amount unset, and the signal is the one of the accounts
\* with 0 in the unset fields.
C25_UnsetCreditFieldsCountAsZero ==
    (/\ signalsResult # <<>>
     /\ \E i \in DOMAIN CallCreditAccounts : CallCreditAccounts[i].unset # {}) =>
        /\ signalsResult[1].status = 200
        /\ LET credit == signalsResult[1].signals.credit
               expected == analyze_credit(signalsCall.accounts)
           IN  /\ credit.overall_utilization = expected.overall_utilization
               /\ credit.monthly_interest = expected.monthly_interest
               /\ credit.flags = SeqToSet(expected.flags)

\* The one case in which an unset field passes: min_payment is 0, so the
\* comparison with last_payment_amount is not made.
UnsetLastPaymentAloneIsTolerated ==
    (/\ signalsResult # <<>>
     /\ signalsCall.accounts # <<>>
     /\ \A i \in DOMAIN CallCreditAccounts :
           /\ CallCreditAccounts[i].unset \subseteq {"last_payment_amount"}
           /\ CallCreditAccounts[i].min_payment = 0) =>
        signalsResult[1].status = 200

\* The signal tags the TemplateGenerator derives from the signals that
\* compute_signals returned for the user of the call.
CallSignalTags == SeqToSet(_extract_signal_tags(signalsResult[1].signals))

\* C28: the signal tags include low_emergency_fund only when the savings
\* signal's emergency_fund_months is below 3.0; a user whose savings signal
\* reports 3 or more months of coverage does not get the tag.
C28_LowEmergencyFundTag ==
    (signalsResult # <<>> /\ signalsResult[1].status = 200) =>
        ("low_emergency_fund" \in CallSignalTags
            => signalsResult[1].signals.savings.emergency_fund_months < 300)

\* Every user with a savings signal gets the tag.
LowEmergencyFundTagAlways ==
    (signalsResult # <<>> /\ signalsResult[1].status = 200) =>
        "low_emergency_fund" \in CallSignalTags

====
